---------------------------- MODULE Spec2Model ----------------------------
(***************************************************************************)
(* A model of the Bronze -> Silver -> Gold transformation pipeline of the  *)
(* Premier League scraper (src/data/etl.py, src/pipeline.py).              *)
(*                                                                         *)
(* Python values are tagged records, so that values of different Python    *)
(* types can be compared:                                                  *)
(*    None            [t |-> "None"]                                       *)
(*    str             [t |-> "str",   s |-> "..."]                         *)
(*    int             [t |-> "int",   i |-> n]                             *)
(*    float           [t |-> "float", num |-> m, exp |-> e]   (m / 10^e)   *)
(*    float nan       [t |-> "nan"]                                        *)
(*    dict            [t |-> "dict",  d |-> <<[k |-> key, v |-> value], ..>>]*)
(*    bool            [t |-> "bool",  b |-> TRUE]                          *)
(*    list            [t |-> "list",  l |-> <<...>>]                       *)
(*    a raised error  [t |-> "raise", exc |-> "ValueError"]                *)
(* Python strings are TLA+ strings; a character is a string of length 1.   *)
(***************************************************************************)
EXTENDS Integers, Sequences, FiniteSets, TLC

VARIABLES
    pc,            \* position of the operation that the specification runs
    value,         \* _parse_stat_value: the argument
    parsed,        \* _parse_stat_value: what the call returned or raised
    row,           \* _transform_flat_data_for_team: the flat row
    team_aliases,  \* _transform_flat_data_for_team: the alias list
    record,        \* _transform_flat_data_for_team: what the call returned
    files,         \* create_global_aggregates: the aggregate CSVs, in listing order
    master,        \* create_global_aggregates: the rows of the master dataset
    master2,       \* the master dataset of an aggregation of the master dataset
    data,          \* _clean_match_data: the caller's document
    data0,         \* the caller's document as it was before the call
    cleaned,       \* _clean_match_data: what the call returned or raised
    flat_row,      \* the flat record of the cleaned document
    flat_row2,     \* the flat record of a second clean and flatten of the document
    bronze,        \* the Bronze files of the matchweek, as read_json returns them
    file_idx,      \* the file the running loop is at
    silver_dataset,    \* process_bronze_to_silver's list of flat records
    silver_files,      \* the Silver layer: the matchweek's CSV files, in key order
    silver_aggregates, \* the Silver layer: the aggregate CSVs written
    gold_dataset,      \* process_silver_to_gold's list of team records
    gold_aggregates,   \* the Gold layer: the aggregate CSVs written
    unread,            \* the Silver files for which read_csv returned None
    tasks,         \* the scrape tasks submitted: each one a run of run_matchweek_task
    max_workers,   \* the number of threads of the pool
    db,            \* MatchDB: the status recorded for each match id
    played,        \* the site: the matches whose page shows a final score
    store,         \* the Bronze layer: the object under each key
    writers,       \* the keys written so far, with the task that wrote each
    now,           \* the clock, in seconds
    runs,          \* pipeline.main: the (season, matchweek) pairs, in loop order
    run_idx,       \* pipeline.main: the pair the loop is at
    skip_scrape,   \* pipeline.main: args.skip_scrape
    trace,         \* pipeline.main: the calls made so far, in order
    gold_master    \* create_global_aggregates: the rows of the Gold master dataset

parseVars == <<value, parsed>>
teamVars == <<row, team_aliases, record>>
aggVars == <<files, master, master2>>
cleanVars == <<data, data0, cleaned, flat_row, flat_row2>>
pipeVars == <<bronze, file_idx, silver_dataset, silver_files, silver_aggregates,
              gold_dataset, gold_aggregates, unread>>
scrapeVars == <<tasks, max_workers, db, played, store, writers, now>>
mainVars == <<runs, run_idx, skip_scrape, trace, gold_master>>
vars == <<pc, parseVars, teamVars, aggVars, cleanVars, pipeVars, scrapeVars, mainVars>>

---------------------------------------------------------------------------
(* Python values *)

PyNone == [t |-> "None"]
PyStr(s) == [t |-> "str", s |-> s]
PyInt(n) == [t |-> "int", i |-> n]
PyNaN == [t |-> "nan"]
PyBool(b) == [t |-> "bool", b |-> b]
PyList(l) == [t |-> "list", l |-> l]
Raise(e) == [t |-> "raise", exc |-> e]
Unset == [t |-> "unset"]

IsRaise(v) == v.t = "raise"

\* A dict keeps its items in insertion order, as Python's does.
PyDict(items) == [t |-> "dict", d |-> items]
Item(k, v) == [k |-> k, v |-> v]
IsDict(v) == v.t = "dict"
DKeys(dct) == {dct.d[i].k : i \in 1..Len(dct.d)}
DHas(dct, k) == k \in DKeys(dct)
\* dict.get(k): None when the key is absent
DGet(dct, k) ==
    IF DHas(dct, k) THEN dct.d[CHOOSE i \in 1..Len(dct.d) : dct.d[i].k = k].v ELSE PyNone
\* dct[k] = v: in place when the key exists, appended otherwise
DSet(dct, k, v) ==
    IF DHas(dct, k)
    THEN PyDict([i \in 1..Len(dct.d) |-> IF dct.d[i].k = k THEN Item(k, v) ELSE dct.d[i]])
    ELSE PyDict(Append(dct.d, Item(k, v)))

\* A float m / 10^e, kept normalised: no trailing zero in the fraction.
RECURSIVE PyFloat(_, _)
PyFloat(m, e) ==
    IF e > 0 /\ m % 10 = 0 THEN PyFloat(m \div 10, e - 1)
    ELSE [t |-> "float", num |-> m, exp |-> e]

---------------------------------------------------------------------------
(* Python's str methods, character by character *)

Ch(s, i) == SubSeq(s, i, i)

Whitespace == {" ", "\n", "\t"}
DecimalDigits == {"0", "1", "2", "3", "4", "5", "6", "7", "8", "9"}
\* str.isdigit() also accepts digits that are not decimal, such as a
\* superscript two, which int() rejects.
OtherDigits == {"²"}

DigitVal(c) == CHOOSE n \in 0..9 : Ch("0123456789", n + 1) = c

AllIn(s, S) == \A i \in 1..Len(s) : Ch(s, i) \in S
Contains(s, c) == \E i \in 1..Len(s) : Ch(s, i) = c

StartsWith(s, p) == Len(s) >= Len(p) /\ SubSeq(s, 1, Len(p)) = p
EndsWith(s, p) == Len(s) >= Len(p) /\ SubSeq(s, Len(s) - Len(p) + 1, Len(s)) = p

RECURSIVE LStripSet(_, _)
LStripSet(s, S) ==
    IF Len(s) > 0 /\ Ch(s, 1) \in S THEN LStripSet(SubSeq(s, 2, Len(s)), S) ELSE s

RECURSIVE RStripSet(_, _)
RStripSet(s, S) ==
    IF Len(s) > 0 /\ Ch(s, Len(s)) \in S THEN RStripSet(SubSeq(s, 1, Len(s) - 1), S) ELSE s

\* str.strip(): whitespace off both ends
Strip(s) == RStripSet(LStripSet(s, Whitespace), Whitespace)

UpperLetters == "ABCDEFGHIJKLMNOPQRSTUVWXYZ"
LowerLetters == "abcdefghijklmnopqrstuvwxyz"
LowerCh(c) ==
    IF \E n \in 1..26 : Ch(UpperLetters, n) = c
    THEN Ch(LowerLetters, CHOOSE n \in 1..26 : Ch(UpperLetters, n) = c)
    ELSE c

RECURSIVE Lower(_)
Lower(s) == IF s = "" THEN "" ELSE LowerCh(Ch(s, 1)) \o Lower(SubSeq(s, 2, Len(s)))

\* str.replace(old, ""): every occurrence of old removed, left to right
RECURSIVE Remove(_, _)
Remove(s, old) ==
    IF s = "" THEN ""
    ELSE IF StartsWith(s, old) THEN Remove(SubSeq(s, Len(old) + 1, Len(s)), old)
    ELSE Ch(s, 1) \o Remove(SubSeq(s, 2, Len(s)), old)

\* the length of the longest run of characters of S that starts at position i
RECURSIVE RunLen(_, _, _)
RunLen(s, i, S) == IF i <= Len(s) /\ Ch(s, i) \in S THEN 1 + RunLen(s, i + 1, S) ELSE 0

RECURSIVE DecVal(_)
DecVal(s) == IF s = "" THEN 0 ELSE 10 * DecVal(SubSeq(s, 1, Len(s) - 1)) + DigitVal(Ch(s, Len(s)))

CountCh(s, c) == Cardinality({i \in 1..Len(s) : Ch(s, i) = c})

---------------------------------------------------------------------------
(* float(s) and int(s) on strings *)

\* float(): surrounding whitespace is ignored; an optional sign; digits with
\* at most one point and at least one digit; "nan" in any letter case.
\* Anything else raises ValueError.  (Exponents, underscores and "inf" need
\* characters that no input of this model contains.)
float_unsigned(u) ==
    IF u # "" /\ AllIn(u, DecimalDigits \cup {"."}) /\ CountCh(u, ".") <= 1
       /\ \E i \in 1..Len(u) : Ch(u, i) \in DecimalDigits
    THEN LET dot == IF Contains(u, ".") THEN CHOOSE i \in 1..Len(u) : Ch(u, i) = "."
                    ELSE Len(u) + 1
             ip == SubSeq(u, 1, dot - 1)
             fp == SubSeq(u, dot + 1, Len(u))
         IN  PyFloat(DecVal(ip \o fp), Len(fp))
    ELSE IF Lower(u) = "nan" THEN PyNaN
    ELSE Raise("ValueError")

float_str(s) ==
    LET u == Strip(s)
        neg == Len(u) > 0 /\ Ch(u, 1) = "-"
        body == IF Len(u) > 0 /\ Ch(u, 1) \in {"+", "-"} THEN SubSeq(u, 2, Len(u)) ELSE u
        r == float_unsigned(body)
    IN  IF neg /\ r.t = "float" THEN PyFloat(0 - r.num, r.exp) ELSE r

\* int() on a string: decimal digits only (after an optional sign).
int_str(s) ==
    LET u == Strip(s)
        neg == Len(u) > 0 /\ Ch(u, 1) = "-"
        body == IF Len(u) > 0 /\ Ch(u, 1) \in {"+", "-"} THEN SubSeq(u, 2, Len(u)) ELSE u
    IN  IF body # "" /\ AllIn(body, DecimalDigits)
        THEN PyInt(IF neg THEN 0 - DecVal(body) ELSE DecVal(body))
        ELSE Raise("ValueError")

\* str.isdigit()
isdigit(s) == s # "" /\ AllIn(s, DecimalDigits \cup OtherDigits)

---------------------------------------------------------------------------
(* ETLPipeline._parse_stat_value *)

\* re.match(r"([\d\.]+)\s*\(([\d\.]+)%\)", s): anchored at the start, not at
\* the end.  Every quantified class is followed by a character outside the
\* class, so the greedy match is the only candidate.
StatRegex(s) ==
    LET cls == DecimalDigits \cup {"."}
        n1 == RunLen(s, 1, cls)
        ws == RunLen(s, n1 + 1, Whitespace)
        p  == n1 + ws + 1                  \* where "(" must be
        n2 == RunLen(s, p + 1, cls)
    IN  IF n1 >= 1 /\ Ch(s, p) = "(" /\ n2 >= 1
           /\ Ch(s, p + 1 + n2) = "%" /\ Ch(s, p + 2 + n2) = ")"
        THEN [matched |-> TRUE, g1 |-> SubSeq(s, 1, n1), g2 |-> SubSeq(s, p + 1, p + n2)]
        ELSE [matched |-> FALSE]

\* a parser without the integer rule of lines 390-391
parse_tail_float_only(val_str) ==
    IF EndsWith(Lower(val_str), "km") /\ ~IsRaise(float_str(Remove(Lower(val_str), "km")))
    THEN float_str(Remove(Lower(val_str), "km"))
    ELSE IF EndsWith(val_str, "%") /\ ~IsRaise(float_str(RStripSet(val_str, {"%"})))
    THEN float_str(RStripSet(val_str, {"%"}))
    ELSE IF ~IsRaise(float_str(val_str)) THEN float_str(val_str)
    ELSE PyStr(val_str)

\* lines 375-397: the rules after the "123 (45%)" rule
parse_tail(val_str) ==
    LET km == IF EndsWith(Lower(val_str), "km")
              THEN float_str(Remove(Lower(val_str), "km")) ELSE Raise("ValueError")
        pct == IF EndsWith(val_str, "%")
               THEN float_str(RStripSet(val_str, {"%"})) ELSE Raise("ValueError")
    IN  IF ~IsRaise(km) THEN km
        ELSE IF ~IsRaise(pct) THEN pct
        ELSE IF isdigit(val_str) THEN int_str(val_str)    \* a ValueError escapes
        ELSE IF ~IsRaise(float_str(val_str)) THEN float_str(val_str)
        ELSE PyStr(val_str)

_parse_stat_value(v) ==
    IF v = PyNone THEN PyNone
    ELSE LET val_str == Strip(v.s)
             m == IF Contains(val_str, "(") /\ Contains(val_str, ")")
                  THEN StatRegex(val_str) ELSE [matched |-> FALSE]
         IN  IF m.matched
             THEN \* float(match.group(..)) is outside any try
                  IF IsRaise(float_str(m.g1)) THEN float_str(m.g1)
                  ELSE IF IsRaise(float_str(m.g2)) THEN float_str(m.g2)
                  ELSE PyDict(<<Item("value", float_str(m.g1)), Item("percent", float_str(m.g2))>>)
             ELSE parse_tail(val_str)

---------------------------------------------------------------------------
(* Inputs of the parser *)

MaxLen == 3

Alphabet == {"1", "2", ".", "(", ")", "%", " ", "k", "m", "K", "²"}

RECURSIVE Strings(_)
Strings(n) ==
    IF n = 0 THEN {""}
    ELSE Strings(n - 1) \cup {s \o c : s \in Strings(n - 1), c \in Alphabet}

\* the inputs that the documentation of the parser names
DocumentedInputs ==
    {"43 (49%)", "108km", "67%", "12", "N/A", "1.2.3 (4%)", "km", "%", "²",
     "100.5km", "45%", "1km2km", " 12 ", "NaN", "39.9%", "60.1%", "Possession", " N/A "}

StatInputs == {PyNone} \cup {PyStr(s) : s \in Strings(MaxLen) \cup DocumentedInputs}

TeamIdle == row = Unset /\ team_aliases = Unset /\ record = Unset
AggIdle == files = Unset /\ master = Unset /\ master2 = Unset
CleanIdle == data = Unset /\ data0 = Unset /\ cleaned = Unset /\ flat_row = Unset /\ flat_row2 = Unset
PipeIdle ==
    /\ bronze = Unset /\ file_idx = 0 /\ silver_dataset = Unset /\ silver_files = Unset
    /\ silver_aggregates = Unset /\ gold_dataset = Unset /\ gold_aggregates = Unset
    /\ unread = Unset

ScrapeIdle ==
    /\ tasks = Unset /\ max_workers = 0 /\ db = Unset /\ played = Unset
    /\ store = Unset /\ writers = Unset /\ now = 0
MainIdle ==
    /\ runs = Unset /\ run_idx = 0 /\ skip_scrape = Unset /\ trace = Unset
    /\ gold_master = Unset

InitParse ==
    /\ pc = "parse"
    /\ value \in StatInputs
    /\ parsed = Unset
    /\ TeamIdle
    /\ AggIdle
    /\ CleanIdle
    /\ PipeIdle
    /\ ScrapeIdle
    /\ MainIdle

ParseStatValue ==
    /\ pc = "parse"
    /\ parsed' = _parse_stat_value(value)
    /\ pc' = "parsed"
    /\ UNCHANGED <<value, teamVars, aggVars, cleanVars, pipeVars,
                   scrapeVars, mainVars>>

NextParse == ParseStatValue

SpecParse == InitParse /\ [][NextParse]_vars

\* C1: _parse_stat_value is total: on every string it returns a value and
\* never raises.
ParseNeverRaises == pc = "parsed" => ~IsRaise(parsed)

\* C13: on the documented inputs the parser returns the reference values:
\* "43 (49%)" gives value 43.0 with percent 49.0, "108km" gives the float
\* 108.0, "67%" gives the float 67.0, "12" gives the integer 12, "N/A" gives
\* the string "N/A", and None gives None.
ReferenceValues ==
    pc = "parsed" =>
        /\ value = PyStr("43 (49%)") =>
               parsed = PyDict(<<Item("value", PyFloat(43, 0)), Item("percent", PyFloat(49, 0))>>)
        /\ value = PyStr("108km") => parsed = PyFloat(108, 0)
        /\ value = PyStr("67%") => parsed = PyFloat(67, 0)
        /\ value = PyStr("12") => parsed = PyInt(12)
        /\ value = PyStr("N/A") => parsed = PyStr("N/A")
        /\ value = PyNone => parsed = PyNone

ParsedTwelve == pc = "parsed" /\ value = PyStr("12") /\ parsed = PyInt(12)

\* C14: null, the empty string and a string of whitespace only are all
\* parsed to None.
EmptyParsesToNone ==
    (pc = "parsed" /\ (value = PyNone \/ (value.t = "str" /\ Strip(value.s) = ""))) =>
        parsed = PyNone

\* C15: when no numeric rule matches, the parser returns the input string
\* unchanged, character for character, surrounding whitespace included.
OpaqueIsTheInput == (pc = "parsed" /\ parsed.t = "str") => parsed = value

\* what is left of a string that ends in "km" without that suffix
WithoutKmSuffix(str) == SubSeq(Lower(str), 1, Len(str) - 2)

\* C16: for a string ending in "km" in any letter case (and not of the
\* value-with-percent form) only the trailing suffix is removed: the result
\* is the float of the remainder, and when the remainder is not a float the
\* km rule gives no number and the later rules return the string.
KmRemovesOnlyTheSuffix ==
    (/\ pc = "parsed"
     /\ value.t = "str"
     /\ EndsWith(Lower(Strip(value.s)), "km")
     /\ ~(Contains(value.s, "(") /\ Contains(value.s, ")"))) =>
        parsed = IF ~IsRaise(float_str(WithoutKmSuffix(Strip(value.s))))
                 THEN float_str(WithoutKmSuffix(Strip(value.s)))
                 ELSE PyStr(Strip(value.s))

---------------------------------------------------------------------------
(* ETLPipeline._transform_flat_data_for_team *)

\* x in team_aliases: list membership by ==
InList(x, lst) == \E i \in 1..Len(lst) : lst[i] = x

RECURSIVE Pow10(_)
Pow10(n) == IF n = 0 THEN 1 ELSE 10 * Pow10(n - 1)

\* int(x) for a value of a row: an int is itself, a float is truncated,
\* nan raises ValueError, None raises TypeError, a string is parsed.
int_of(x) ==
    CASE x.t = "int" -> x
      [] x.t = "bool" -> PyInt(IF x.b THEN 1 ELSE 0)
      [] x.t = "float" -> PyInt(x.num \div Pow10(x.exp))
      [] x.t = "nan" -> Raise("ValueError")
      [] x.t = "str" -> int_str(x.s)
      [] OTHER -> Raise("TypeError")

\* a variant that forgets the away side
MatchedSideHomeOnly(r, aliases) ==
    IF InList(DGet(r, "home_team"), aliases) THEN "home" ELSE "none"

\* lines 162-177: the matched side, None when no side matches
MatchedSide(r, aliases) ==
    IF InList(DGet(r, "home_team"), aliases) THEN "home"
    ELSE IF InList(DGet(r, "away_team"), aliases) THEN "away"
    ELSE "none"

\* a variant that counts a level score as a win
MatchResultGE(team_score, opp_score) ==
    LET ts == int_of(team_score)
        os == int_of(opp_score)
    IN  IF IsRaise(ts) \/ IsRaise(os) THEN "D"
        ELSE IF ts.i >= os.i THEN "W"
        ELSE "L"

\* lines 179-187
MatchResult(team_score, opp_score) ==
    LET ts == int_of(team_score)
        os == int_of(opp_score)
    IN  IF IsRaise(ts) \/ IsRaise(os) THEN "D"      \* bare except: pass
        ELSE IF ts.i > os.i THEN "W"
        ELSE IF ts.i < os.i THEN "L"
        ELSE "D"

\* a variant that always reports the home side's goals as the team's
BaseRecordHomeGoals(r, side) ==
    LET other == IF side = "home" THEN "away" ELSE "home"
    IN  PyDict(<<
          Item("match_id", DGet(r, "match_id")),
          Item("season", DGet(r, "season")),
          Item("matchweek", DGet(r, "matchweek")),
          Item("date", DGet(r, "date")),
          Item("venue", DGet(r, "venue")),
          Item("is_home", PyBool(side = "home")),
          Item("team", DGet(r, side \o "_team")),
          Item("opponent", DGet(r, other \o "_team")),
          Item("result", PyStr(MatchResult(DGet(r, side \o "_score"), DGet(r, other \o "_score")))),
          Item("goals_scored", DGet(r, "home_score")),
          Item("goals_conceded", DGet(r, "away_score")) >>)

\* lines 189-202
BaseRecord(r, side) ==
    LET other == IF side = "home" THEN "away" ELSE "home"
        team_score == DGet(r, side \o "_score")
        opp_score == DGet(r, other \o "_score")
    IN  PyDict(<<
          Item("match_id", DGet(r, "match_id")),
          Item("season", DGet(r, "season")),
          Item("matchweek", DGet(r, "matchweek")),
          Item("date", DGet(r, "date")),
          Item("venue", DGet(r, "venue")),
          Item("is_home", PyBool(side = "home")),
          Item("team", DGet(r, side \o "_team")),
          Item("opponent", DGet(r, other \o "_team")),
          Item("result", PyStr(MatchResult(team_score, opp_score))),
          Item("goals_scored", team_score),
          Item("goals_conceded", opp_score) >>)

\* a variant without the collision test of line 214
CopyColumnOverwrite(rec, clean_key, v) == DSet(rec, clean_key, v)

\* lines 214-215: a copied column never replaces a key the record has
CopyColumn(rec, clean_key, v) ==
    IF ~DHas(rec, clean_key) THEN DSet(rec, clean_key, v) ELSE rec

\* lines 209-215: the loop over row.items(), from item i on
RECURSIVE CopyPrefixed(_, _, _, _)
CopyPrefixed(rec, r, prefix, i) ==
    IF i > Len(r.d) THEN rec
    ELSE LET k == r.d[i].k
         IN  IF StartsWith(k, prefix)
             THEN CopyPrefixed(CopyColumn(rec, SubSeq(k, Len(prefix) + 1, Len(k)), r.d[i].v),
                               r, prefix, i + 1)
             ELSE CopyPrefixed(rec, r, prefix, i + 1)

_transform_flat_data_for_team(r, aliases) ==
    LET side == MatchedSide(r, aliases)
    IN  IF side = "none" THEN PyNone
        ELSE CopyPrefixed(BaseRecord(r, side), r, side \o "_", 1)

---------------------------------------------------------------------------
(* Inputs of the team extraction: rows as read back from a Silver CSV *)

MaxScore == 3

\* process_silver_to_gold's list, and the alias set of the documentation
AliasLists == { <<PyStr("Man Utd"), PyStr("Manchester United")>>, <<PyStr("Man Utd")>> }

\* team names as scraped; an empty CSV cell is read back as nan
TeamNames == {PyStr("Man Utd"), PyStr("Manchester United"), PyStr("man utd"),
              PyStr("Arsenal"), PyNaN}

\* a score of a Silver row: the cleaned integer, nan for an empty cell, or
\* the fraction that a statistic that is itself named "Score" leaves there
ScoreValues == {PyInt(n) : n \in 0..MaxScore} \cup {PyNaN, PyFloat(25, 1)}

\* statistic columns, in the column order of the CSV
StatColumns ==
    << Item("home_possession", PyFloat(601, 1)),
       Item("away_possession", PyFloat(399, 1)),
       Item("home_result", PyInt(7)),
       Item("away_date", PyInt(8)),
       Item("home_away_duels", PyInt(9)) >>

RECURSIVE Pick(_, _, _)
\* the items of seq whose index is in S, in order
Pick(seq, S, i) ==
    IF i > Len(seq) THEN <<>>
    ELSE (IF i \in S THEN <<seq[i]>> ELSE <<>>) \o Pick(seq, S, i + 1)

FlatRows ==
    { PyDict(<< Item("match_id", PyInt(101)),
                Item("season", PyStr("2025/26")),
                Item("matchweek", PyInt(1)),
                Item("date", PyStr("Sat 16 Aug")),
                Item("venue", PyStr("Old Trafford")),
                Item("referee", PyStr("A Taylor")),
                Item("home_team", ht),
                Item("away_team", at),
                Item("home_score", hs),
                Item("away_score", as) >> \o Pick(StatColumns, S, 1))
      : ht \in TeamNames, at \in TeamNames, hs \in ScoreValues, as \in ScoreValues,
        S \in {{}, {1, 2}, {1, 2, 3, 4}, {3, 5}, {2, 4, 5}} }

ParseIdle == value = Unset /\ parsed = Unset

InitTeam ==
    /\ pc = "extract"
    /\ row \in FlatRows
    /\ team_aliases \in AliasLists
    /\ record = Unset
    /\ ParseIdle
    /\ AggIdle
    /\ CleanIdle
    /\ PipeIdle
    /\ ScrapeIdle
    /\ MainIdle

TransformFlatDataForTeam ==
    /\ pc = "extract"
    /\ record' = _transform_flat_data_for_team(row, team_aliases)
    /\ pc' = "extracted"
    /\ UNCHANGED <<row, team_aliases, parseVars, aggVars, cleanVars, pipeVars,
                   scrapeVars, mainVars>>

NextTeam == TransformFlatDataForTeam

SpecTeam == InitTeam /\ [][NextTeam]_vars

---------------------------------------------------------------------------
(* Properties of the team extraction *)

AliasSet == {team_aliases[i] : i \in 1..Len(team_aliases)}
Extracted == pc = "extracted" /\ record # PyNone
HomeMatched == DGet(row, "home_team") \in AliasSet
AwayMatched == DGet(row, "away_team") \in AliasSet
OwnSide == IF HomeMatched THEN "home" ELSE "away"
OppSide == IF HomeMatched THEN "away" ELSE "home"

\* C6: the extraction returns None if and only if neither home_team nor
\* away_team is an element of the alias set (exact, case-sensitive).
NoneIffNoAlias ==
    pc = "extracted" => ((record = PyNone) <=> (~HomeMatched /\ ~AwayMatched))

\* a row whose home team differs from an alias only in letter case is skipped
SkippedOnLetterCase ==
    /\ pc = "extracted"
    /\ record = PyNone
    /\ DGet(row, "home_team") = PyStr("man utd")

\* C7: for a matched row the result is W when the team's score, as an
\* integer, is strictly greater than the opponent's, L when strictly less,
\* D when they are equal or one of them is no integer; always one of W, D, L.
ResultIsWDL ==
    Extracted =>
        LET ts == int_of(DGet(row, OwnSide \o "_score"))
            os == int_of(DGet(row, OppSide \o "_score"))
            res == DGet(record, "result")
        IN  /\ res \in {PyStr("W"), PyStr("D"), PyStr("L")}
            /\ (IsRaise(ts) \/ IsRaise(os)) => res = PyStr("D")
            /\ (~IsRaise(ts) /\ ~IsRaise(os)) =>
                  /\ (ts.i > os.i) => res = PyStr("W")
                  /\ (ts.i < os.i) => res = PyStr("L")
                  /\ (ts.i = os.i) => res = PyStr("D")

\* the away side is the team and it lost
AwayTeamLost ==
    /\ Extracted
    /\ DGet(record, "is_home") = PyBool(FALSE)
    /\ DGet(record, "result") = PyStr("L")

\* C8: for a matched row is_home is true exactly when the matched side is
\* home; team, opponent, goals_scored and goals_conceded are the matched and
\* the other side's names and scores.  Home "Man Utd" 3-1 with aliases
\* {"Man Utd"} gives team "Man Utd", is_home true, W, 3, 1.
SideFieldsFollowMatch ==
    Extracted =>
        /\ DGet(record, "is_home") = PyBool(HomeMatched)
        /\ DGet(record, "team") = DGet(row, OwnSide \o "_team")
        /\ DGet(record, "opponent") = DGet(row, OppSide \o "_team")
        /\ DGet(record, "goals_scored") = DGet(row, OwnSide \o "_score")
        /\ DGet(record, "goals_conceded") = DGet(row, OppSide \o "_score")
        /\ ( /\ DGet(row, "home_team") = PyStr("Man Utd")
             /\ DGet(row, "home_score") = PyInt(3)
             /\ DGet(row, "away_score") = PyInt(1)
             /\ team_aliases = <<PyStr("Man Utd")>> )
           => /\ DGet(record, "team") = PyStr("Man Utd")
              /\ DGet(record, "is_home") = PyBool(TRUE)
              /\ DGet(record, "result") = PyStr("W")
              /\ DGet(record, "goals_scored") = PyInt(3)
              /\ DGet(record, "goals_conceded") = PyInt(1)

\* the documented example has been extracted
ManUtdHomeWin ==
    /\ Extracted
    /\ team_aliases = <<PyStr("Man Utd")>>
    /\ DGet(row, "home_team") = PyStr("Man Utd")
    /\ DGet(row, "home_score") = PyInt(3)
    /\ DGet(row, "away_score") = PyInt(1)

BaseFields == {"match_id", "season", "matchweek", "date", "venue", "is_home", "team",
               "opponent", "result", "goals_scored", "goals_conceded"}

Stripped(k, side) == SubSeq(k, Len(side) + 2, Len(k))
OwnColumns == {k \in DKeys(row) : StartsWith(k, OwnSide \o "_")}

\* the base fields hold what the row's meta columns and the match say
BaseFieldsKept ==
    /\ \A b \in {"match_id", "season", "matchweek", "date", "venue"} :
          DGet(record, b) = DGet(row, b)
    /\ DGet(record, "is_home") = PyBool(HomeMatched)
    /\ DGet(record, "team") = DGet(row, OwnSide \o "_team")
    /\ DGet(record, "opponent") = DGet(row, OppSide \o "_team")
    /\ DGet(record, "result") \in {PyStr("W"), PyStr("D"), PyStr("L")}
    /\ DGet(record, "goals_scored") = DGet(row, OwnSide \o "_score")
    /\ DGet(record, "goals_conceded") = DGet(row, OppSide \o "_score")

\* every key of the record is a base field or comes from a column of the
\* matched side
OnlyOwnColumns == DKeys(record) = BaseFields \cup {Stripped(k, OwnSide) : k \in OwnColumns}

\* C9 as stated: every column with the matched side's prefix is copied with
\* the prefix stripped, opponent-only columns contribute no key, and no base
\* field is overwritten.
EveryOwnColumnCopied ==
    Extracted =>
        /\ \A k \in OwnColumns : DGet(record, Stripped(k, OwnSide)) = DGet(row, k)
        /\ OnlyOwnColumns
        /\ BaseFieldsKept

\* C9 (amended): every column with the matched side's prefix whose stripped
\* name is not a base field is copied with the prefix stripped, a column
\* whose stripped name is a base field is skipped, opponent-only columns
\* contribute no key, and no base field is overwritten.
OwnColumnsCopiedUnlessBase ==
    Extracted =>
        /\ \A k \in OwnColumns :
              Stripped(k, OwnSide) \notin BaseFields
                 => DGet(record, Stripped(k, OwnSide)) = DGet(row, k)
        /\ OnlyOwnColumns
        /\ BaseFieldsKept

\* a home row with a statistic column named like a base field
HomeRowWithResultColumn ==
    /\ Extracted
    /\ HomeMatched
    /\ DHas(row, "home_result")
    /\ DHas(row, "away_date")
    /\ DGet(record, "possession") = PyFloat(601, 1)

---------------------------------------------------------------------------
(* ETLPipeline.create_global_aggregates: pandas on lists of rows *)

\* A DataFrame is the sequence of its rows (dicts); it has the columns of
\* its rows.  The pipeline writes match_id, season and matchweek into every
\* row, so concat has no cell to fill.
Columns(df) == UNION {DKeys(df[i]) : i \in 1..Len(df)}

\* lines 94-97 and 100: the non-empty frames, concatenated in listing order
RECURSIVE Concat(_)
Concat(dfs) ==
    IF dfs = <<>> THEN <<>>
    ELSE (IF Head(dfs) # <<>> THEN Head(dfs) ELSE <<>>) \o Concat(Tail(dfs))

RECURSIVE SelectRows(_, _, _)
\* the rows of df whose index is in S, in order
SelectRows(df, S, i) ==
    IF i > Len(df) THEN <<>>
    ELSE (IF i \in S THEN <<df[i]>> ELSE <<>>) \o SelectRows(df, S, i + 1)

\* drop_duplicates(subset=[col], keep="first")
DropDuplicatesFirst(df, col) ==
    SelectRows(df, {i \in 1..Len(df) :
                      \A j \in 1..(i - 1) : DGet(df[j], col) # DGet(df[i], col)}, 1)

\* line 103: drop_duplicates(subset=[col], keep="last"); the rows kept stay
\* in their order
DropDuplicates(df, col) ==
    SelectRows(df, {i \in 1..Len(df) :
                      \A j \in (i + 1)..Len(df) : DGet(df[j], col) # DGet(df[i], col)}, 1)

\* the order of the characters of a season label
CharCode(c) == CHOOSE n \in 1..11 : Ch("/0123456789", n) = c

RECURSIVE StrLess(_, _)
\* a < b on Python strings
StrLess(a, b) ==
    IF b = "" THEN FALSE
    ELSE IF a = "" THEN TRUE
    ELSE IF Ch(a, 1) # Ch(b, 1) THEN CharCode(Ch(a, 1)) < CharCode(Ch(b, 1))
    ELSE StrLess(SubSeq(a, 2, Len(a)), SubSeq(b, 2, Len(b)))

\* the order of one sort key: nan sorts last (na_position="last")
CellLess(x, y) ==
    IF x.t = "nan" THEN FALSE
    ELSE IF y.t = "nan" THEN TRUE
    ELSE IF x.t = "str" THEN StrLess(x.s, y.s)
    ELSE x.i < y.i

\* by=["season", "matchweek"]: season first, matchweek among equal seasons
RowLess(a, b) ==
    \/ CellLess(DGet(a, "season"), DGet(b, "season"))
    \/ /\ ~CellLess(DGet(b, "season"), DGet(a, "season"))
       /\ CellLess(DGet(a, "matchweek"), DGet(b, "matchweek"))

\* a sort that puts r before the rows it ties with
UnstableSlot(sorted, r) == Cardinality({i \in 1..Len(sorted) : RowLess(sorted[i], r)})

\* where a stable sort puts r in the sorted rows: after every row not greater
StableSlot(sorted, r) == Cardinality({i \in 1..Len(sorted) : ~RowLess(r, sorted[i])})

InsertAt(seq, n, r) == SubSeq(seq, 1, n) \o <<r>> \o SubSeq(seq, n + 1, Len(seq))

RECURSIVE SortFrom(_, _, _)
SortFrom(sorted, df, i) ==
    IF i > Len(df) THEN sorted
    ELSE SortFrom(InsertAt(sorted, StableSlot(sorted, df[i]), df[i]), df, i + 1)

\* a sort by matchweek alone
SortByMatchweek(df) ==
    LET less(a, b) == CellLess(DGet(a, "matchweek"), DGet(b, "matchweek"))
        F[i \in 0..Len(df)] ==
            IF i = 0 THEN <<>>
            ELSE InsertAt(F[i - 1],
                          Cardinality({j \in 1..Len(F[i - 1]) : ~less(df[i], F[i - 1][j])}),
                          df[i])
    IN  F[Len(df)]

\* line 107: sort_values(by=["season", "matchweek"]): pandas sorts on
\* several keys with a stable lexsort, ascending, nan last
SortValues(df) == SortFrom(<<>>, df, 1)

\* lines 99-107 (Silver) and 142-148 (Gold)
AggregateFrames(dfs) ==
    LET all == Concat(dfs)
        deduped == IF "match_id" \in Columns(all) THEN DropDuplicates(all, "match_id") ELSE all
    IN  IF {"season", "matchweek"} \subseteq Columns(all) THEN SortValues(deduped)
        ELSE deduped

---------------------------------------------------------------------------
(* Inputs of the aggregation: the rows of the aggregate CSVs *)

MaxRows == 3

\* the first match of 2024/25 and the first two of 2025/26
\* (SeasonScraper.SEASONS)
MatchIds == {PyInt(2444470), PyInt(2561895), PyInt(2561896)}
\* the season whose id range holds the match
SeasonOfMatch(id) == IF id.i >= 2561895 THEN PyStr("2025/26") ELSE PyStr("2024/25")
\* the matchweek cell of a row, as the caller of the scrape labelled it; an
\* empty cell is read back as nan
MatchweekCells == {PyInt(1), PyInt(2), PyNaN}

\* home_score stands for the rest of the row: it numbers the rows of the
\* input, so that two scrapes of one match differ
AggRow(id, mw, n) ==
    PyDict(<< Item("match_id", id), Item("season", SeasonOfMatch(id)),
              Item("matchweek", mw), Item("home_score", PyInt(n)) >>)

RowInputs(n) == [1..n -> MatchIds \X MatchweekCells]

\* two aggregate files: the first cut rows, then the rest
FilesOf(f, cut) ==
    LET rows == [i \in 1..Len(f) |-> AggRow(f[i][1], f[i][2], i)]
    IN  << SubSeq(rows, 1, cut), SubSeq(rows, cut + 1, Len(rows)) >>

InitAgg ==
    /\ pc = "aggregate"
    /\ \E n \in 0..MaxRows : \E f \in RowInputs(n) : \E cut \in 0..n : files = FilesOf(f, cut)
    /\ master = Unset
    /\ master2 = Unset
    /\ ParseIdle
    /\ TeamIdle
    /\ CleanIdle
    /\ PipeIdle
    /\ ScrapeIdle
    /\ MainIdle

\* create_global_aggregates over the listed files
CreateGlobalAggregates ==
    /\ pc = "aggregate"
    /\ master' = AggregateFrames(files)
    /\ pc' = "aggregated"
    /\ UNCHANGED <<files, master2, parseVars, teamVars, cleanVars, pipeVars,
                   scrapeVars, mainVars>>

\* the aggregation applied to its own output
AggregateAgain ==
    /\ pc = "aggregated"
    /\ master2' = AggregateFrames(<<master>>)
    /\ pc' = "reaggregated"
    /\ UNCHANGED <<files, master, parseVars, teamVars, cleanVars, pipeVars,
                   scrapeVars, mainVars>>

NextAgg == CreateGlobalAggregates \/ AggregateAgain

SpecAgg == InitAgg /\ [][NextAgg]_vars

---------------------------------------------------------------------------
(* Properties of the aggregation *)

Aggregated == pc \in {"aggregated", "reaggregated"}

\* the positions <<file, line>> of the input rows; a later position is a
\* later file, or a later line of the same file
Positions == {<<f, l>> : f \in 1..2, l \in 1..MaxRows + 1}
InputPositions == {p \in Positions : p[1] <= Len(files) /\ p[2] <= Len(files[p[1]])}
Later(p, q) == q[1] > p[1] \/ (q[1] = p[1] /\ q[2] > p[2])
InputRow(p) == files[p[1]][p[2]]
MatchIdOf(r) == DGet(r, "match_id")

\* C3: the master dataset has at most one row per match_id, and for every
\* match_id of the input that row is its last occurrence in the concatenated
\* input (files in listing order, rows in file order).
MasterKeepsLastPerMatch ==
    Aggregated =>
        /\ \A i, j \in 1..Len(master) :
              MatchIdOf(master[i]) = MatchIdOf(master[j]) => i = j
        /\ \A p \in InputPositions :
              (\A q \in InputPositions : Later(p, q) => MatchIdOf(InputRow(q)) # MatchIdOf(InputRow(p)))
                 <=> (\E i \in 1..Len(master) : master[i] = InputRow(p))
        /\ \A i \in 1..Len(master) : \E p \in InputPositions : master[i] = InputRow(p)

\* a match that occurs in both files is in the master once, from the later
\* file
RescrapeReplacedOlderRow ==
    /\ Aggregated
    /\ \E l1 \in 1..Len(files[1]), l2 \in 1..Len(files[2]) :
          /\ MatchIdOf(files[1][l1]) = MatchIdOf(files[2][l2])
          /\ \E i \in 1..Len(master) : master[i] = files[2][l2]
          /\ \A i \in 1..Len(master) : master[i] # files[1][l1]

\* C4: aggregating the output of an aggregation yields the same dataset,
\* same rows in the same order, whatever the order of the input rows.
AggregationIdempotent == pc = "reaggregated" => master2 = master

\* an input that the first aggregation both deduplicated and reordered has
\* been aggregated twice
ReaggregatedAfterDedupAndSort ==
    /\ pc = "reaggregated"
    /\ Len(master) >= 2
    /\ Len(master) < Len(Concat(files))
    /\ \E i \in 1..Len(master) - 1 :
          DGet(master[i], "home_score").i > DGet(master[i + 1], "home_score").i

HasSortKeys(r) == DGet(r, "season").t # "nan" /\ DGet(r, "matchweek").t # "nan"

\* (season, matchweek) of a before that of b, as tuples
TupleBefore(a, b) ==
    \/ StrLess(DGet(a, "season").s, DGet(b, "season").s)
    \/ /\ DGet(a, "season") = DGet(b, "season")
       /\ DGet(a, "matchweek").i < DGet(b, "matchweek").i

\* C5: of two master rows that both have season and matchweek, the one with
\* the smaller (season, matchweek) tuple comes first.
MasterSortedBySeasonMatchweek ==
    Aggregated =>
        \A i, j \in 1..Len(master) :
            (HasSortKeys(master[i]) /\ HasSortKeys(master[j])
               /\ TupleBefore(master[i], master[j])) => i < j

\* three matches were given latest season first, the middle row without a
\* matchweek, and the master starts with the earlier season
SortMovedEarlierSeasonForward ==
    /\ Aggregated
    /\ Len(master) = 3
    /\ LET all == Concat(files)
       IN  /\ Len(all) = 3
           /\ DGet(all[1], "season") = PyStr("2025/26")
           /\ DGet(all[2], "matchweek") = PyNaN
           /\ DGet(all[3], "season") = PyStr("2024/25")
           /\ HasSortKeys(all[1]) /\ HasSortKeys(all[3])
    /\ DGet(master[1], "season") = PyStr("2024/25")

\* the rows after line 103, before the sort
Deduplicated == DropDuplicates(Concat(files), "match_id")
SameSortKeys(a, b) ==
    DGet(a, "season") = DGet(b, "season") /\ DGet(a, "matchweek") = DGet(b, "matchweek")
MasterPosition(r) == CHOOSE i \in 1..Len(master) : master[i] = r

\* C25: the master sort is stable: two rows that both miss a sort key, and
\* two rows with equal (season, matchweek), are in the master in the order
\* they have in the deduplicated input.
MasterSortIsStable ==
    Aggregated =>
        \A a, b \in 1..Len(Deduplicated) :
            (/\ a < b
             /\ \/ ~HasSortKeys(Deduplicated[a]) /\ ~HasSortKeys(Deduplicated[b])
                \/ SameSortKeys(Deduplicated[a], Deduplicated[b]))
               => MasterPosition(Deduplicated[a]) < MasterPosition(Deduplicated[b])

---------------------------------------------------------------------------
(* ETLPipeline._clean_player_list *)

\* dict.get(k, default)
DGetOr(dct, k, default) == IF DHas(dct, k) THEN DGet(dct, k) ELSE default

RECURSIVE Split(_, _)
\* str.split(sep) for a separator of one character
Split(s, sep) ==
    IF ~Contains(s, sep) THEN <<s>>
    ELSE LET i == CHOOSE n \in 1..Len(s) :
                     Ch(s, n) = sep /\ \A m \in 1..(n - 1) : Ch(s, m) # sep
         IN  <<SubSeq(s, 1, i - 1)>> \o Split(SubSeq(s, i + 1, Len(s)), sep)

\* lines 403-422: one player, on a copy of the player's dict
CleanPlayer(p, is_sub) ==
    LET raw_name == DGetOr(p, "name", PyStr("")).s
    IN  IF is_sub
        THEN LET parts == Split(raw_name, "\n")
                 p1 == DSet(p, "name", PyStr(Strip(parts[1])))
                 p2 == IF Len(parts) >= 2 /\ isdigit(parts[2])
                       THEN DSet(p1, "number", PyStr(Strip(parts[2]))) ELSE p1
             IN  IF Len(parts) >= 3 THEN DSet(p2, "position", PyStr(Strip(parts[3]))) ELSE p2
        ELSE LET number == DGetOr(p, "number", PyStr("")).s
             IN  IF number # "" /\ StartsWith(raw_name, number)
                 THEN DSet(p, "name", PyStr(Strip(SubSeq(raw_name, Len(number) + 1, Len(raw_name)))))
                 ELSE p

_clean_player_list(players, is_sub) ==
    PyList([i \in 1..Len(players.l) |-> CleanPlayer(players.l[i], is_sub)])

---------------------------------------------------------------------------
(* ETLPipeline._clean_match_data *)

\* lines 274-276: every string of match_info stripped, in the dict itself
StripValues(info) ==
    PyDict([i \in 1..Len(info.d) |->
              IF info.d[i].v.t = "str"
              THEN Item(info.d[i].k, PyStr(Strip(info.d[i].v.s))) ELSE info.d[i]])

\* lines 280-285: one score made an integer, 0 when int() fails
CoerceScore(info, score_key) ==
    LET val == DGet(info, score_key)
    IN  IF val # PyNone /\ val.t \notin {"int", "bool"}
        THEN DSet(info, score_key, IF IsRaise(int_of(val)) THEN PyInt(0) ELSE int_of(val))
        ELSE info

\* lines 273-285
CleanMatchInfo(info) == CoerceScore(CoerceScore(StripValues(info), "home_score"), "away_score")

RECURSIVE UpdateKeepExisting(_, _, _)
\* an overlay that leaves the keys the dict already has
UpdateKeepExisting(dct, other, i) ==
    IF i > Len(other.d) THEN dct
    ELSE UpdateKeepExisting(IF DHas(dct, other.d[i].k) THEN dct
                            ELSE DSet(dct, other.d[i].k, other.d[i].v), other, i + 1)

RECURSIVE Update(_, _, _)
\* dict.update(other), from item i of other on
Update(dct, other, i) ==
    IF i > Len(other.d) THEN dct
    ELSE Update(DSet(dct, other.d[i].k, other.d[i].v), other, i + 1)

RECURSIVE OverlayCategories(_, _, _)
\* lines 298-300: every category that is a dict overlays the merged stats
OverlayCategories(raw, detailed, i) ==
    IF i > Len(detailed.d) THEN raw
    ELSE OverlayCategories(IF IsDict(detailed.d[i].v) THEN Update(raw, detailed.d[i].v, 1) ELSE raw,
                           detailed, i + 1)

\* lines 293-300
MergeRawStats(doc) ==
    LET base == IF DHas(doc, "statistics") /\ IsDict(DGet(doc, "statistics"))
                THEN Update(PyDict(<<>>), DGet(doc, "statistics"), 1) ELSE PyDict(<<>>)
    IN  IF DHas(doc, "detailed_statistics")
        THEN OverlayCategories(base, DGet(doc, "detailed_statistics"), 1) ELSE base

\* re.findall(r"(\d+(?:\.\d+)?%)", s): the number of matches from position i
RECURSIVE CountPercentages(_, _)
CountPercentages(s, i) ==
    IF i > Len(s) THEN 0
    ELSE LET n1 == RunLen(s, i, DecimalDigits)
             n2 == RunLen(s, i + n1 + 1, DecimalDigits)
         IN  IF n1 >= 1 /\ Ch(s, i + n1) = "%" THEN 1 + CountPercentages(s, i + n1 + 1)
             ELSE IF n1 >= 1 /\ Ch(s, i + n1) = "." /\ n2 >= 1 /\ Ch(s, i + n1 + 1 + n2) = "%"
             THEN 1 + CountPercentages(s, i + n1 + n2 + 2)
             ELSE CountPercentages(s, i + 1)

RECURSIVE NatToStr(_)
NatToStr(n) == IF n < 10 THEN Ch("0123456789", n + 1)
               ELSE NatToStr(n \div 10) \o Ch("0123456789", (n % 10) + 1)

\* f"{x:.1f}" for x = num / 10^exp.  With more than one decimal the value is
\* rounded to the nearest tenth; on a decimal tie the binary value of the
\* float decides, which is taken here as the even tenth.
Format1f(x) ==
    LET a == IF x.num < 0 THEN 0 - x.num ELSE x.num
        unit == IF x.exp >= 2 THEN Pow10(x.exp - 1) ELSE 1
        q == a \div unit
        r == a % unit
        tenths == IF x.exp = 0 THEN 10 * a
                  ELSE IF x.exp = 1 THEN a
                  ELSE IF 2 * r > unit \/ (2 * r = unit /\ q % 2 = 1) THEN q + 1 ELSE q
    IN  (IF x.num < 0 THEN "-" ELSE "") \o NatToStr(tenths \div 10) \o "." \o NatToStr(tenths % 10)

\* 100 - x
HundredMinus(x) == PyFloat(100 * Pow10(x.exp) - x.num, x.exp)

\* a repair that renames the statistic and recovers nothing
KeepHome(home_val, away) == home_val

\* lines 327-335: the home value recomputed from the away percentage
RecoverHome(home_val, away) ==
    IF away.t = "str" /\ away.s # "" /\ Contains(away.s, "%")
    THEN LET away_float == float_str(RStripSet(LStripSet(away.s, {"%"}), {"%"}))
         IN  IF away_float.t = "float"
             THEN PyStr(Format1f(HundredMinus(away_float)) \o "%")
             ELSE IF away_float.t = "nan" THEN PyStr("nan%")
             ELSE home_val                                 \* except: pass
    ELSE home_val

\* lines 306-335: the name and the two raw values that are parsed
RepairPossession(stat_name, values) ==
    LET clean_name == Strip(stat_name)
        home_val == DGet(values, "home")
        away_val == DGet(values, "away")
    IN  IF Contains(clean_name, "%")
           /\ (\E i \in 1..Len(clean_name) : Ch(clean_name, i) \in DecimalDigits \cup OtherDigits)
           /\ (home_val = PyStr("Possession") \/ away_val = PyStr("Possession"))
        THEN [name |-> "Possession",
              home |-> IF CountPercentages(stat_name, 1) = 2
                       THEN RecoverHome(home_val, away_val) ELSE home_val,
              away |-> away_val]
        ELSE [name |-> clean_name, home |-> home_val, away |-> away_val]

RECURSIVE PadZeros(_, _)
PadZeros(str, n) == IF Len(str) >= n THEN str ELSE PadZeros("0" \o str, n)

RECURSIVE PyRepr(_)
RECURSIVE ReprItems(_, _)

\* repr(value), as str() of a dict shows its values: a string is quoted
ReprValue(v) ==
    CASE v.t = "str" -> "'" \o v.s \o "'"
      [] v.t = "None" -> "None"
      [] OTHER -> PyRepr(v)

\* the items of a dict from item i on, as str() shows them
ReprItems(items, i) ==
    IF i > Len(items) THEN ""
    ELSE "'" \o items[i].k \o "': " \o ReprValue(items[i].v)
         \o (IF i < Len(items) THEN ", " ELSE "") \o ReprItems(items, i + 1)

\* str(value) on line 363 for a value that is not a string
PyRepr(v) ==
    CASE v.t = "int" -> (IF v.i < 0 THEN "-" \o NatToStr(0 - v.i) ELSE NatToStr(v.i))
      [] v.t = "bool" -> (IF v.b THEN "True" ELSE "False")
      [] v.t = "nan" -> "nan"
      [] v.t = "float" ->
           LET a == IF v.num < 0 THEN 0 - v.num ELSE v.num
           IN  (IF v.num < 0 THEN "-" ELSE "") \o NatToStr(a \div Pow10(v.exp)) \o "."
               \o (IF v.exp = 0 THEN "0" ELSE PadZeros(NatToStr(a % Pow10(v.exp)), v.exp))
      [] v.t = "dict" -> "{" \o ReprItems(v.d, 1) \o "}"

\* _parse_stat_value on a raw cell: str(value) first
RawToStr(v) == IF v.t \in {"None", "str"} THEN v ELSE PyStr(PyRepr(v))

RECURSIVE CleanStats(_, _, _)

\* lines 338-341: the parsed values stored under the name; a ValueError of
\* _parse_stat_value leaves the loop
StoreSides(cleaned_stats, raw, i, clean_name, h, a) ==
    IF IsRaise(h) THEN h
    ELSE IF IsRaise(a) THEN a
    ELSE CleanStats(DSet(cleaned_stats, clean_name, PyDict(<<Item("home", h), Item("away", a)>>)),
                    raw, i + 1)

\* lines 339-340: home is parsed before away
ParseSides(cleaned_stats, raw, i, fixed) ==
    StoreSides(cleaned_stats, raw, i, fixed.name,
               _parse_stat_value(RawToStr(fixed.home)),
               _parse_stat_value(RawToStr(fixed.away)))

\* lines 302-341: the loop over the merged stats from item i on
CleanStats(cleaned_stats, raw, i) ==
    IF i > Len(raw.d) THEN cleaned_stats
    ELSE IF ~IsDict(raw.d[i].v) THEN CleanStats(cleaned_stats, raw, i + 1)
    ELSE ParseSides(cleaned_stats, raw, i, RepairPossession(raw.d[i].k, raw.d[i].v))

\* lines 348-354: one side of the lineups, in the side's dict itself
CleanSide(lineups, side) ==
    IF DHas(lineups, side)
    THEN LET sd == DGet(lineups, side)
             s1 == DSet(sd, "starting_xi",
                        _clean_player_list(DGetOr(sd, "starting_xi", PyList(<<>>)), FALSE))
             s2 == DSet(s1, "substitutes",
                        _clean_player_list(DGetOr(sd, "substitutes", PyList(<<>>)), TRUE))
         IN  DSet(lineups, side, s2)
    ELSE lineups

CleanLineups(lineups) == CleanSide(CleanSide(lineups, "home"), "away")

\* What the nested dicts of the document are after the call.  data.copy()
\* on line 270 copies the top-level dict only: match_info and lineups of
\* the copy are the caller's own dicts, and lines 276-285 and 349-354 assign
\* into them.  The lineups are reached only if no statistic raised.
SharedAfter(doc, stats) ==
    LET d1 == IF DHas(doc, "match_info")
              THEN DSet(doc, "match_info", CleanMatchInfo(DGet(doc, "match_info"))) ELSE doc
    IN  IF ~IsRaise(stats) /\ DHas(doc, "lineups")
        THEN DSet(d1, "lineups", CleanLineups(DGet(doc, "lineups"))) ELSE d1

\* a cleaner that works on the caller's dict itself, without a copy
ArgAfterNoCopy(doc, stats) ==
    IF IsRaise(stats) THEN SharedAfter(doc, stats)
    ELSE DSet(SharedAfter(doc, stats), "statistics", stats)

\* the caller's document after the call
ArgAfter(doc, stats) == SharedAfter(doc, stats)

\* lines 343-356: ret is the dict returned (or the exception that left the
\* call), arg is the caller's document after the call
Returned(doc, stats) ==
    [ret |-> IF IsRaise(stats) THEN stats
             ELSE DSet(SharedAfter(doc, stats), "statistics", stats),
     arg |-> ArgAfter(doc, stats)]

\* lines 268-356
_clean_match_data(doc) == Returned(doc, CleanStats(PyDict(<<>>), MergeRawStats(doc), 1))

---------------------------------------------------------------------------
(* ETLPipeline._flatten_match_data *)

\* bool(v)
Truthy(v) ==
    CASE v.t = "None" -> FALSE
      [] v.t = "str" -> v.s # ""
      [] v.t = "int" -> v.i # 0
      [] v.t = "float" -> v.num # 0
      [] v.t = "bool" -> v.b
      [] v.t = "dict" -> v.d # <<>>
      [] v.t = "list" -> v.l # <<>>
      [] OTHER -> TRUE

RECURSIVE ReplaceCh(_, _, _)
\* str.replace(a, b) for single characters
ReplaceCh(str, a, b) ==
    IF str = "" THEN ""
    ELSE (IF Ch(str, 1) = a THEN b ELSE Ch(str, 1)) \o ReplaceCh(SubSeq(str, 2, Len(str)), a, b)

\* line 246: the column name of a statistic
ColumnName(stat_name) ==
    LET t1 == ReplaceCh(Lower(stat_name), " ", "_")
        t2 == Remove(Remove(Remove(t1, "("), ")"), "%")
    IN  RStripSet(LStripSet(t2, {"_"}), {"_"})

\* a flattening that drops the percentage of a pair
FlattenSideValueOnly(flat, side, clean_name, val) ==
    DSet(flat, side \o "_" \o clean_name,
         IF IsDict(val) /\ DHas(val, "value") THEN DGet(val, "value") ELSE val)

\* lines 249-264: the columns of one side of one statistic
FlattenSide(flat, side, clean_name, val) ==
    IF IsDict(val) /\ DHas(val, "value")
    THEN LET f1 == DSet(flat, side \o "_" \o clean_name, DGet(val, "value"))
         IN  IF DHas(val, "percent")
             THEN DSet(f1, side \o "_" \o clean_name \o "_pct", DGet(val, "percent")) ELSE f1
    ELSE DSet(flat, side \o "_" \o clean_name, val)

RECURSIVE FlattenStats(_, _, _)
\* lines 242-264: the loop over the statistics from item i on
FlattenStats(flat, stats, i) ==
    IF i > Len(stats.d) THEN flat
    ELSE IF ~IsDict(stats.d[i].v) THEN FlattenStats(flat, stats, i + 1)
    ELSE LET clean_name == ColumnName(stats.d[i].k)
             val_dict == stats.d[i].v
         IN  FlattenStats(FlattenSide(FlattenSide(flat, "home", clean_name, DGet(val_dict, "home")),
                                      "away", clean_name, DGet(val_dict, "away")),
                          stats, i + 1)

\* a lookup of match_info that needs the key: data["match_info"]
MatchInfoRequired(doc) ==
    IF DHas(doc, "match_info") THEN DGet(doc, "match_info") ELSE Raise("KeyError")

\* line 225: data.get("match_info", {})
MatchInfoOf(doc) == DGetOr(doc, "match_info", PyDict(<<>>))

\* lines 228-239: the meta columns; info.get raises on a match_info that is
\* no mapping
MetaColumns(doc, info) ==
    IF ~IsDict(info) THEN Raise("AttributeError")
    ELSE PyDict(<<Item("match_id", DGet(doc, "match_id")),
                  Item("season", DGet(doc, "season")),
                  Item("matchweek", DGet(doc, "matchweek")),
                  Item("date", IF Truthy(DGet(info, "date_time"))
                               THEN DGet(info, "date_time") ELSE DGet(info, "date")),
                  Item("venue", DGet(info, "venue")),
                  Item("referee", DGet(info, "referee")),
                  Item("home_team", DGet(info, "home_team")),
                  Item("away_team", DGet(info, "away_team")),
                  Item("home_score", DGet(info, "home_score")),
                  Item("away_score", DGet(info, "away_score"))>>)

\* lines 223-266
_flatten_match_data(doc) ==
    LET stats == DGetOr(doc, "statistics", PyDict(<<>>))
        flat == MetaColumns(doc, MatchInfoOf(doc))
    IN  IF IsRaise(flat) THEN flat ELSE FlattenStats(flat, stats, 1)

\* etl.py lines 29-31: an exception of the cleaner leaves the loop body
Flattened(cleaned_data) ==
    IF IsRaise(cleaned_data) THEN cleaned_data ELSE _flatten_match_data(cleaned_data)

\* The documents the cleaner is run on: what the scraper writes for a match,
\* with each section present or absent and the defects the site produces.
MatchInfos ==
    {Unset} \cup
    {PyDict(<<Item("home_team", PyStr(h)), Item("away_team", PyStr("Arsenal")),
              Item("date", PyStr("Sat 17 Aug")), Item("home_score", hs)>>
            \o (IF as = Unset THEN <<>> ELSE <<Item("away_score", as)>>)) :
        <<h, hs, as>> \in {"Man Utd", " Man Utd "}
                          \X {PyInt(3), PyStr("3"), PyStr("x"), PyNone, PyFloat(25, 1)}
                          \X {PyInt(1), PyStr(" 1 "), Unset}}

Side(h, a) == PyDict(<<Item("home", h), Item("away", a)>>)

Statistics ==
    {Unset,
     PyDict(<<Item("Possession", Side(PyStr("60.1%"), PyStr("39.9%"))),
              Item(" Total Passes ", Side(PyStr("43 (49%)"), PyInt(12))),
              Item("note", PyStr("n/a"))>>),
     PyDict(<<Item("39.9%60.1%", Side(PyStr("Possession"), PyStr("39.9%")))>>),
     PyDict(<<Item("60.1%39.9%", Side(PyStr("60.1%"), PyStr("Possession")))>>),
     PyDict(<<Item("Passes (%)", Side(PyStr("43 (49%)"), PyStr("7 (51%)"))),
              Item("passes", Side(PyStr("12"), PyStr("N/A")))>>),
     PyDict(<<Item("Passes", Side(PyStr("1.2.3 (4%)"), PyStr("5")))>>),
     PyDict(<<Item("Score", Side(PyStr("9"), PyStr("8")))>>)}

DetailedStatistics ==
    {Unset,
     PyDict(<<Item("top_stats", PyDict(<<Item("Possession", Side(PyStr("55%"), PyStr("45%")))>>)),
              Item("attack", PyDict(<<Item("Distance", Side(PyStr("108km"), PyNone)),
                                      Item("Possession", Side(PyStr("52%"), PyStr("48%")))>>)),
              Item("memo", PyStr("x"))>>)}

Player(name, number) == PyDict(<<Item("name", PyStr(name)), Item("number", PyStr(number))>>)

Lineups ==
    {Unset,
     PyDict(<<>>),
     PyDict(<<Item("home", PyDict(<<Item("starting_xi", PyList(<<Player("40Bizot", "40")>>)),
                                    Item("substitutes", PyList(<<PyDict(<<Item("name", PyStr("Heaton\n22\nGK"))>>)>>))>>))>>),
     PyDict(<<Item("home", PyDict(<<Item("starting_xi", PyList(<<Player("Onana", "24")>>))>>)),
              Item("away", PyDict(<<Item("starting_xi", PyList(<<>>)),
                                    Item("substitutes", PyList(<<>>))>>))>>)}

\* a document with the sections that are present
Section(doc, k, v) == IF v = Unset THEN doc ELSE DSet(doc, k, v)

Document(id, mi, st, ds, lu) ==
    Section(Section(Section(Section(
        PyDict(<<Item("match_id", id), Item("season", SeasonOfMatch(id)),
                 Item("matchweek", PyInt(1))>>),
        "match_info", mi), "statistics", st), "detailed_statistics", ds), "lineups", lu)

CleanDocs ==
    {Document(PyInt(2561895), mi, st, ds, lu) :
        <<mi, st, ds, lu>> \in MatchInfos \X Statistics \X DetailedStatistics \X Lineups}

InitClean ==
    /\ pc = "clean"
    /\ data \in CleanDocs
    /\ data0 = data
    /\ cleaned = Unset
    /\ flat_row = Unset
    /\ flat_row2 = Unset
    /\ ParseIdle
    /\ TeamIdle
    /\ AggIdle
    /\ PipeIdle
    /\ ScrapeIdle
    /\ MainIdle

\* etl.py lines 26-29: cleaned_data = self._clean_match_data(data), then
\* silver_record = self._flatten_match_data(cleaned_data)
CleanMatchData ==
    /\ pc = "clean"
    /\ \E call \in {_clean_match_data(data)} :
          /\ cleaned' = call.ret
          /\ data' = call.arg
          /\ flat_row' = Flattened(call.ret)
    /\ pc' = "cleaned"
    /\ UNCHANGED <<data0, flat_row2, parseVars, teamVars, aggVars, pipeVars,
                   scrapeVars, mainVars>>

\* the same two calls once more, on the document object the first call was
\* given
CleanSameDocumentAgain ==
    /\ pc = "cleaned"
    /\ \E call \in {_clean_match_data(data)} :
          /\ data' = call.arg
          /\ flat_row2' = Flattened(call.ret)
    /\ pc' = "recleaned"
    /\ UNCHANGED <<data0, cleaned, flat_row, parseVars, teamVars, aggVars, pipeVars,
                   scrapeVars, mainVars>>

NextClean == CleanMatchData \/ CleanSameDocumentAgain

SpecClean == InitClean /\ [][NextClean]_vars

\* C10: _clean_match_data has no side effect on its argument: after the call
\* the caller's document is what it was before the call.
ArgumentLeftAsPassed == pc = "cleaned" => data = data0

\* C11: flatten(clean(doc)) applied twice to the same document object gives
\* the same flat_row row (same keys, same values, or the same exception), although
\* the first application has already run on the object.
SecondFlatRowSame == pc = "recleaned" => flat_row2 = flat_row

\* C12: after cleaning, match_info.home_score and match_info.away_score are
\* integers: a score that is non-numeric, null or absent has become 0.
CleanedScoresAreIntegers ==
    (pc = "cleaned" /\ IsDict(cleaned) /\ DHas(cleaned, "match_info")) =>
        \A score_key \in {"home_score", "away_score"} :
            /\ DHas(DGet(cleaned, "match_info"), score_key)
            /\ DGet(DGet(cleaned, "match_info"), score_key).t = "int"

\* the statistics the cleaner merges from the document it is given
Merged == MergeRawStats(data0)

\* the merged statistics the repair of lines 312-317 applies to
BrokenPossession ==
    {i \in 1..Len(Merged.d) :
        /\ IsDict(Merged.d[i].v)
        /\ Contains(Strip(Merged.d[i].k), "%")
        /\ \E n \in 1..Len(Merged.d[i].k) : Ch(Merged.d[i].k, n) \in DecimalDigits
        /\ \/ DGet(Merged.d[i].v, "home") = PyStr("Possession")
           \/ DGet(Merged.d[i].v, "away") = PyStr("Possession")}

IsNumber(v) == v.t \in {"int", "float"}

\* C17: when a merged statistic's key has a '%' and a digit and one side's
\* raw value is the word "Possession", the cleaned statistics hold the entry
\* under "Possession" and not under the malformed key, and when the key holds
\* two percentage figures both sides of the entry are numbers.
PossessionRepaired ==
    (pc = "cleaned" /\ IsDict(cleaned)) =>
        \A i \in BrokenPossession :
            /\ DHas(DGet(cleaned, "statistics"), "Possession")
            /\ ~DHas(DGet(cleaned, "statistics"), Strip(Merged.d[i].k))
            /\ CountPercentages(Merged.d[i].k, 1) = 2 =>
                  /\ IsNumber(DGet(DGet(DGet(cleaned, "statistics"), "Possession"), "home"))
                  /\ IsNumber(DGet(DGet(DGet(cleaned, "statistics"), "Possession"), "away"))

\* C18: an entry keyed "39.9%60.1%" with away "39.9%" and home "Possession"
\* (and no other Possession entry) is cleaned to an entry keyed "Possession"
\* with away 39.9 and home 100 - 39.9 = 60.1.
PossessionExample ==
    (/\ pc = "cleaned"
     /\ DGet(Merged, "39.9%60.1%") = Side(PyStr("Possession"), PyStr("39.9%"))
     /\ ~DHas(Merged, "Possession")) =>
        /\ IsDict(cleaned)
        /\ DGet(DGet(cleaned, "statistics"), "Possession") = Side(PyFloat(601, 1), PyFloat(399, 1))
        /\ ~DHas(DGet(cleaned, "statistics"), "39.9%60.1%")

PossessionExampleCleaned ==
    /\ pc = "cleaned"
    /\ DHas(Merged, "39.9%60.1%")
    /\ ~DHas(Merged, "Possession")
    /\ IsDict(cleaned)
    /\ DGet(DGet(DGet(cleaned, "statistics"), "Possession"), "home") = PyFloat(601, 1)

\* the cleaned statistics that flatten goes through
CleanedStats == DGet(cleaned, "statistics").d

\* a parsed value that is a value-with-percent pair
IsPair(v) == IsDict(v) /\ DHas(v, "value") /\ DHas(v, "percent")

\* the flat row as it stands when flatten has gone through the first n
\* cleaned statistics
RowAfter(n) ==
    _flatten_match_data(DSet(cleaned, "statistics", PyDict(SubSeq(CleanedStats, 1, n))))

\* what statistic i writes on the side: the column, and the _pct column
\* exactly for a pair
Emitted(i, side) ==
    LET v == DGet(CleanedStats[i].v, side)
        col == side \o "_" \o ColumnName(CleanedStats[i].k)
    IN  IF IsPair(v)
        THEN {<<col, DGet(v, "value")>>, <<col \o "_pct", DGet(v, "percent")>>}
        ELSE {<<col, v>>}

EmittedColumns(i) == {e[1] : e \in Emitted(i, "home") \cup Emitted(i, "away")}

\* C19: for every cleaned statistic and each side flatten emits the column
\* <side>_<slug>; it emits <side>_<slug>_pct as well exactly when the side's
\* parsed value is a value-with-percent pair, and otherwise the single column
\* carries the parsed value unchanged.  Going through statistic i writes
\* these columns with these values and leaves every other column as it was.
EveryStatisticFlattened ==
    (pc = "cleaned" /\ IsDict(cleaned)) =>
        /\ flat_row = RowAfter(Len(CleanedStats))
        /\ \A i \in 1..Len(CleanedStats) :
              /\ \A side \in {"home", "away"} : \A e \in Emitted(i, side) :
                    DHas(RowAfter(i), e[1]) /\ DGet(RowAfter(i), e[1]) = e[2]
              /\ DKeys(RowAfter(i)) = DKeys(RowAfter(i - 1)) \cup EmittedColumns(i)
              /\ \A k \in DKeys(RowAfter(i - 1)) \ EmittedColumns(i) :
                    DGet(RowAfter(i), k) = DGet(RowAfter(i - 1), k)

\* a pair on one side and an opaque string on the other, in one row
PairAndOpaqueFlattened ==
    /\ pc = "cleaned"
    /\ IsDict(cleaned)
    /\ DGet(flat_row, "home_total_passes") = PyFloat(43, 0)
    /\ DGet(flat_row, "home_total_passes_pct") = PyFloat(49, 0)
    /\ DGet(flat_row, "away_total_passes") = PyInt(12)
    /\ ~DHas(flat_row, "away_total_passes_pct")

\* the columns of the flat row are those of statistic i on the side
ColumnsReflect(i, side) ==
    LET v == DGet(CleanedStats[i].v, side)
        col == side \o "_" \o ColumnName(CleanedStats[i].k)
    IN  /\ DHas(flat_row, col)
        /\ IF IsPair(v)
           THEN /\ DGet(flat_row, col) = DGet(v, "value")
                /\ DHas(flat_row, col \o "_pct")
                /\ DGet(flat_row, col \o "_pct") = DGet(v, "percent")
           ELSE /\ DGet(flat_row, col) = v
                /\ ~DHas(flat_row, col \o "_pct")

\* the statistics that a later statistic of the same slug follows
Overwriting ==
    {j \in 1..Len(CleanedStats) :
        /\ \E i \in 1..(j - 1) : ColumnName(CleanedStats[i].k) = ColumnName(CleanedStats[j].k)
        /\ \A k \in (j + 1)..Len(CleanedStats) :
              ColumnName(CleanedStats[k].k) # ColumnName(CleanedStats[j].k)}

\* C20: when two statistics of a document have the same slug the later one
\* overwrites the earlier: every column of the slug, the _pct sibling
\* included, is that of the later statistic and none keeps a value of the
\* earlier one.
LaterStatisticOverwrites ==
    (pc = "cleaned" /\ IsDict(cleaned)) =>
        \A j \in Overwriting : \A side \in {"home", "away"} : ColumnsReflect(j, side)

\* the first application changed the document, and both gave a row with
\* statistic columns
SecondPassOnChangedDocument ==
    /\ pc = "recleaned"
    /\ data0 # data
    /\ IsDict(flat_row)
    /\ DHas(flat_row, "home_total_passes_pct")
    /\ DGet(flat_row, "home_score") = PyInt(3)
    /\ DGet(DGet(data0, "match_info"), "home_score") = PyStr("3")

---------------------------------------------------------------------------
(* S3DataStore: a flat record written by upload_csv and read by read_csv *)

\* the strings pandas.read_csv reads as a missing value
NaStrings == {"", "#N/A", "N/A", "NA", "NULL", "NaN", "None", "n/a", "nan", "null", "<NA>"}

\* One cell of a one-row CSV after df.to_csv and pd.read_csv: None is written
\* as an empty field and read as NaN; a string is read by what it looks like.
CsvCell(v) ==
    CASE v.t = "None" -> PyNaN
      [] v.t = "str" ->
           IF v.s \in NaStrings THEN PyNaN
           ELSE IF v.s = Strip(v.s) /\ ~IsRaise(int_str(v.s)) THEN int_str(v.s)
           ELSE IF v.s = Strip(v.s) /\ ~IsRaise(float_str(v.s)) THEN float_str(v.s)
           ELSE v
      [] OTHER -> v

\* processor.py lines 189-196 and etl.py line 63: df.iloc[0].to_dict()
ReadCsvRow(rec) == PyDict([i \in 1..Len(rec.d) |-> Item(rec.d[i].k, CsvCell(rec.d[i].v))])

\* processor.py lines 80-87 and 124-129: the record's own match id names the
\* object, so a second upload for the match replaces the first; list_files
\* returns the keys in order (the ids have the same number of digits)
PutCsv(layer, rec) ==
    LET id == DGet(rec, "match_id").i
        before == SelectSeq(layer, LAMBDA f : DGet(f, "match_id").i < id)
        after == SelectSeq(layer, LAMBDA f : DGet(f, "match_id").i > id)
    IN  before \o <<rec>> \o after

---------------------------------------------------------------------------
(* run_pipeline with skip_scrape: process_bronze_to_silver, then *)
(* process_silver_to_gold, for one matchweek                      *)

\* etl.py line 55
target_aliases == <<PyStr("Man Utd"), PyStr("Manchester United")>>

MaxFiles == 3

MatchInfo(home, away, hs, as) ==
    PyDict(<<Item("home_team", PyStr(home)), Item("away_team", PyStr(away)),
             Item("date", PyStr("Sat 17 Aug")), Item("venue", PyStr(" Old Trafford ")),
             Item("home_score", hs), Item("away_score", as)>>)

\* What a Bronze file can hold: nothing readable, an empty object, a Man Utd
\* match, another match, and a match with a statistic that
\* _parse_stat_value raises on.
BronzeKinds == {"unreadable", "empty", "man_utd", "other", "malformed"}

BronzeContent(kind, id) ==
    CASE kind = "unreadable" -> PyNone                    \* read_json returns None
      [] kind = "empty" -> PyDict(<<>>)
      [] kind = "man_utd" ->
           Document(id, MatchInfo("Man Utd", "Arsenal", PyStr("3"), PyInt(1)),
                    PyDict(<<Item("Possession", Side(PyStr("60.1%"), PyStr("39.9%"))),
                             Item("Total Passes", Side(PyStr("43 (49%)"), PyStr("N/A")))>>),
                    Unset, Unset)
      [] kind = "other" ->
           Document(id, MatchInfo("Chelsea", "Arsenal", PyInt(0), PyInt(0)),
                    PyDict(<<Item("Distance Covered", Side(PyStr("108km"), PyStr("100.5km")))>>),
                    Unset, Unset)
      [] kind = "malformed" ->
           Document(id, MatchInfo("Spurs", "Manchester United", PyInt(2), PyInt(2)),
                    PyDict(<<Item("Passes", Side(PyStr("1.2.3 (4%)"), PyStr("5")))>>),
                    Unset, Unset)

\* season_scraper.py line 38: the ids of a matchweek follow one another
MatchIdOfFile(i) == PyInt(2561894 + i)

BronzeLayers ==
    UNION {{[i \in 1..n |-> BronzeContent(kinds[i], MatchIdOfFile(i))] :
               kinds \in [1..n -> BronzeKinds]} : n \in 1..MaxFiles}

Init ==
    /\ pc = "bronze_to_silver"
    /\ bronze \in BronzeLayers
    /\ file_idx = 1
    /\ silver_dataset = <<>>
    /\ silver_files = <<>>
    /\ silver_aggregates = <<>>
    /\ gold_dataset = <<>>
    /\ gold_aggregates = <<>>
    /\ unread = {}
    /\ ParseIdle
    /\ TeamIdle
    /\ AggIdle
    /\ CleanIdle
    /\ ScrapeIdle
    /\ MainIdle

\* a loop body that lets the failure of a read out
SilverRecordReadRaises(file) ==
    IF file = PyNone THEN Raise("ClientError")
    ELSE IF ~Truthy(file) THEN PyNone
    ELSE Flattened(_clean_match_data(file).ret)

\* etl.py lines 22-31: the body of the loop for one file, up to the flat
\* record: None when the file is skipped, the exception when one is raised
SilverRecord(file) ==
    IF ~Truthy(file) THEN PyNone                          \* if not data: continue
    ELSE Flattened(_clean_match_data(file).ret)

\* etl.py lines 21-35: one iteration of the loop over the Bronze files
BronzeToSilverFile ==
    /\ pc = "bronze_to_silver"
    /\ file_idx <= Len(bronze)
    /\ \E silver_record \in {SilverRecord(bronze[file_idx])} :
          /\ ~IsRaise(silver_record)
          /\ IF silver_record = PyNone
             THEN UNCHANGED <<silver_dataset, silver_files,
                   scrapeVars, mainVars>>
             ELSE /\ silver_dataset' = Append(silver_dataset, silver_record)
                  /\ silver_files' = PutCsv(silver_files, silver_record)
    /\ file_idx' = file_idx + 1
    /\ UNCHANGED <<pc, bronze, silver_aggregates, gold_dataset, gold_aggregates, unread,
                   parseVars, teamVars, aggVars, cleanVars,
                   scrapeVars, mainVars>>

\* pipeline.py lines 41-44: nothing in process_bronze_to_silver catches the
\* exception of a file; it reaches run_pipeline, which logs it and returns
BronzeToSilverFailed ==
    /\ pc = "bronze_to_silver"
    /\ file_idx <= Len(bronze)
    /\ IsRaise(SilverRecord(bronze[file_idx]))
    /\ pc' = "returned"
    /\ UNCHANGED <<pipeVars, parseVars, teamVars, aggVars, cleanVars,
                   scrapeVars, mainVars>>

\* etl.py lines 38-44, then pipeline.py line 47
BronzeToSilverAggregate ==
    /\ pc = "bronze_to_silver"
    /\ file_idx > Len(bronze)
    /\ silver_aggregates' = IF silver_dataset # <<>>
                            THEN Append(silver_aggregates, silver_dataset)
                            ELSE silver_aggregates
    /\ pc' = "silver_to_gold"
    /\ file_idx' = 1
    /\ UNCHANGED <<bronze, silver_dataset, silver_files, gold_dataset, gold_aggregates,
                   unread, parseVars, teamVars, aggVars, cleanVars,
                   scrapeVars, mainVars>>

\* etl.py lines 57-70: one iteration of the loop over the Silver files
SilverToGoldFile ==
    /\ pc = "silver_to_gold"
    /\ file_idx <= Len(silver_files)
    /\ \E df \in {PyNone, ReadCsvRow(silver_files[file_idx])} :
          IF df = PyNone                                  \* if df is None: continue
          THEN /\ unread' = unread \cup {DGet(silver_files[file_idx], "match_id")}
               /\ UNCHANGED gold_dataset
          ELSE /\ \E gold_record \in {_transform_flat_data_for_team(df, target_aliases)} :
                     gold_dataset' = IF Truthy(gold_record)
                                     THEN Append(gold_dataset, gold_record)
                                     ELSE gold_dataset
               /\ UNCHANGED unread
    /\ file_idx' = file_idx + 1
    /\ UNCHANGED <<pc, bronze, silver_dataset, silver_files, silver_aggregates, gold_aggregates,
                   parseVars, teamVars, aggVars, cleanVars,
                   scrapeVars, mainVars>>

\* etl.py lines 72-78, then pipeline.py lines 54-56
SilverToGoldAggregate ==
    /\ pc = "silver_to_gold"
    /\ file_idx > Len(silver_files)
    /\ gold_aggregates' = IF gold_dataset # <<>>
                          THEN Append(gold_aggregates, gold_dataset)
                          ELSE gold_aggregates
    /\ pc' = "completed"
    /\ UNCHANGED <<bronze, file_idx, silver_dataset, silver_files, silver_aggregates,
                   gold_dataset, unread, parseVars, teamVars, aggVars, cleanVars,
                   scrapeVars, mainVars>>

Next ==
    \/ BronzeToSilverFile
    \/ BronzeToSilverFailed
    \/ BronzeToSilverAggregate
    \/ SilverToGoldFile
    \/ SilverToGoldAggregate

Spec == Init /\ [][Next]_vars

\* the Bronze files that can be read and are not empty
Readable == {i \in 1..Len(bronze) : Truthy(bronze[i])}

\* the files that clean and flatten without an exception
Clean == {i \in Readable : ~IsRaise(SilverRecord(bronze[i]))}

InSilver(i) == \E n \in 1..Len(silver_files) :
                  DGet(silver_files[n], "match_id") = DGet(bronze[i], "match_id")

\* C2: an exception raised while cleaning one record never aborts the batch:
\* when run_pipeline is over, every other file of the matchweek has been
\* processed and the Silver aggregate has been written.
ExceptionNeverAbortsBatch ==
    pc \in {"returned", "completed"} =>
        /\ \A i \in Clean : InSilver(i)
        /\ Clean # {} => silver_aggregates # <<>>

\* no readable file before file i raises: the loop gets to file i
LoopReaches(clean, i) == \A j \in Readable : j < i => j \in clean

\* the team records of the Silver files that were read
GoldSources ==
    [n \in {n \in 1..Len(silver_files) : DGet(silver_files[n], "match_id") \notin unread} |->
        _transform_flat_data_for_team(ReadCsvRow(silver_files[n]), target_aliases)]

\* C23: a file whose read fails or that is absent is skipped and the batch
\* continues: every other listed file that the loop gets to is processed and
\* contributes its row, in Bronze-to-Silver and in Silver-to-Gold.
ReadFailureSkipsOnlyThatFile ==
    /\ pc \in {"silver_to_gold", "completed", "returned"} =>
          LET clean == Clean
          IN  /\ \A i \in clean :
                    LoopReaches(clean, i) =>
                       /\ InSilver(i)
                       /\ \E n \in 1..Len(silver_dataset) :
                             DGet(silver_dataset[n], "match_id") = DGet(bronze[i], "match_id")
              /\ Len(silver_dataset) = Cardinality({i \in clean : LoopReaches(clean, i)})
    /\ pc = "completed" =>
          LET sources == GoldSources
          IN  /\ \A n \in DOMAIN sources :
                    Truthy(sources[n]) =>
                       \E g \in 1..Len(gold_dataset) : gold_dataset[g] = sources[n]
              /\ Len(gold_dataset) = Cardinality({n \in DOMAIN sources : Truthy(sources[n])})

\* a batch with an unreadable Bronze file and an unreadable Silver file has
\* been completed, with a later file in the Silver and the Gold output
ReadFailuresSkipped ==
    /\ pc = "completed"
    /\ \E i \in 1..Len(bronze), j \in Clean : bronze[i] = PyNone /\ i < j /\ InSilver(j)
    /\ silver_aggregates # <<>>
    /\ unread # {}
    /\ gold_aggregates # <<>>

---------------------------------------------------------------------------
(* The overlays of the merged statistics *)

\* the mappings the cleaner merges, in the order it goes through them: the
\* statistics of the document, then each category of detailed_statistics
Overlays ==
    (IF DHas(data0, "statistics") /\ IsDict(DGet(data0, "statistics"))
     THEN <<DGet(data0, "statistics")>> ELSE <<>>)
    \o (IF DHas(data0, "detailed_statistics")
        THEN SelectSeq([n \in 1..Len(DGet(data0, "detailed_statistics").d) |->
                          DGet(data0, "detailed_statistics").d[n].v], IsDict)
        ELSE <<>>)

\* the overlays that have the stat name
OverlaysWith(stat_name) == {n \in 1..Len(Overlays) : DHas(Overlays[n], stat_name)}
LastOverlayWith(stat_name) ==
    Overlays[CHOOSE n \in OverlaysWith(stat_name) : \A m \in OverlaysWith(stat_name) : m <= n]

\* a stat name that the cleaner stores under itself, with the values it is
\* given: the name is stripped already, it is the only one of the merged
\* names with this stripped form and lines 312-333 leave it alone
PlainName(stat_name) ==
    /\ Strip(stat_name) = stat_name
    /\ \A k \in DKeys(Merged) : Strip(k) = stat_name => k = stat_name
    /\ ~Contains(stat_name, "%")

\* C26: the merged raw statistics start from the statistics of the document
\* and are overlaid by each category of detailed_statistics in iteration
\* order: every merged name has the value of the last overlay that contains
\* it, and so has the cleaned statistic of that name.
LastOverlayWins ==
    pc = "cleaned" =>
        /\ DKeys(Merged) = UNION {DKeys(Overlays[n]) : n \in 1..Len(Overlays)}
        /\ \A k \in DKeys(Merged) :
              /\ DGet(Merged, k) = DGet(LastOverlayWith(k), k)
              /\ (~IsRaise(cleaned) /\ PlainName(k) /\ IsDict(DGet(Merged, k))) =>
                    DGet(DGet(cleaned, "statistics"), k) =
                       Side(_parse_stat_value(RawToStr(DGet(DGet(LastOverlayWith(k), k), "home"))),
                            _parse_stat_value(RawToStr(DGet(DGet(LastOverlayWith(k), k), "away"))))

\* Possession is in the statistics and in two categories, and the cleaned
\* value is that of the last category
PossessionFromLastCategory ==
    /\ pc = "cleaned"
    /\ Cardinality(OverlaysWith("Possession")) = 3
    /\ DGet(DGet(data0, "statistics"), "Possession") = Side(PyStr("60.1%"), PyStr("39.9%"))
    /\ DGet(DGet(cleaned, "statistics"), "Possession") = Side(PyFloat(52, 0), PyFloat(48, 0))

---------------------------------------------------------------------------
(* The meta columns of a flat row *)

MetaColumnNames ==
    {"match_id", "season", "matchweek", "date", "venue", "referee",
     "home_team", "away_team", "home_score", "away_score"}

\* C29: in every flat row the fixed meta columns hold the values taken from
\* the top level of the cleaned document and from its match_info: no
\* statistic, whatever its name, overwrites one of them.
MetaColumnsKept ==
    (pc = "cleaned" /\ IsDict(flat_row)) =>
        \A c \in MetaColumnNames :
            DGet(flat_row, c) = DGet(MetaColumns(cleaned, MatchInfoOf(cleaned)), c)

\* the same for the documents that have no statistic whose column name is
\* "score"
MetaColumnsKeptWithoutScore ==
    (pc = "cleaned" /\ IsDict(flat_row)
       /\ \A k \in DKeys(DGet(cleaned, "statistics")) : ColumnName(k) # "score") =>
        \A c \in MetaColumnNames :
            DGet(flat_row, c) = DGet(MetaColumns(cleaned, MatchInfoOf(cleaned)), c)

---------------------------------------------------------------------------
(* Absent sections of a document *)

\* dct with key k set to v when dct has no key k
WithDefault(dct, k, v) == IF DHas(dct, k) THEN dct ELSE DSet(dct, k, v)

\* a lineup side with both of its lists
FullSide(lineups, side) ==
    DSet(lineups, side,
         WithDefault(WithDefault(DGetOr(lineups, side, PyDict(<<>>)),
                                 "starting_xi", PyList(<<>>)),
                     "substitutes", PyList(<<>>)))

\* the document with an empty mapping or list (None for a score) in the
\* place of every section that is absent
WithEverySection(doc) ==
    LET d1 == WithDefault(WithDefault(WithDefault(WithDefault(doc,
                  "match_info", PyDict(<<>>)), "statistics", PyDict(<<>>)),
                  "detailed_statistics", PyDict(<<>>)), "lineups", PyDict(<<>>))
        info == WithDefault(WithDefault(DGet(d1, "match_info"), "home_score", PyNone),
                            "away_score", PyNone)
        lineups == FullSide(FullSide(DGet(d1, "lineups"), "home"), "away")
    IN  DSet(DSet(d1, "match_info", info), "lineups", lineups)

SectionAbsent ==
    \/ \E k \in {"match_info", "statistics", "detailed_statistics", "lineups"} : ~DHas(data0, k)
    \/ DHas(data0, "match_info") /\ ~DHas(DGet(data0, "match_info"), "away_score")
    \/ /\ DHas(data0, "lineups")
       /\ \/ ~DHas(DGet(data0, "lineups"), "away")
          \/ /\ DHas(DGet(data0, "lineups"), "home")
             /\ ~DHas(DGet(DGet(data0, "lineups"), "home"), "substitutes")

\* C24: clean, flatten and extract never raise because a nested section
\* (match_info, statistics, detailed_statistics, lineups, a lineup side, a
\* score field) is absent: the document gives the flat row, or the exception
\* of a statistic value, that it gives with an empty mapping or list in the
\* place of the section; without statistics nothing is raised.
AbsentSectionIsEmpty ==
    (pc = "cleaned" /\ SectionAbsent) =>
        /\ flat_row = Flattened(_clean_match_data(WithEverySection(data0)).ret)
        /\ IsRaise(cleaned) <=> IsRaise(flat_row)
        /\ (~DHas(data0, "statistics") /\ ~DHas(data0, "detailed_statistics")) =>
               ~IsRaise(cleaned)
        /\ ~IsRaise(flat_row) =>
               ~IsRaise(_transform_flat_data_for_team(ReadCsvRow(flat_row), target_aliases))

\* a document with no section at all has been cleaned and flattened
BareDocumentFlattened ==
    /\ pc = "cleaned"
    /\ \A k \in {"match_info", "statistics", "detailed_statistics", "lineups"} : ~DHas(data0, k)
    /\ IsDict(cleaned)
    /\ DGet(cleaned, "statistics") = PyDict(<<>>)
    /\ IsDict(flat_row)
    /\ DGet(flat_row, "home_team") = PyNone

---------------------------------------------------------------------------
(* SeasonScraper, MatchDB and S3DataStore as the scrape workers use them *)

\* season_scraper.py lines 37-41: the first match id of each season
SEASONS ==
    PyDict(<<Item("2025/26", PyInt(2561895)), Item("2024/25", PyInt(2444470)),
             Item("2023/24", PyInt(2367538))>>)

\* the matches of a matchweek (10 in season_scraper.py line 44)
MATCHES_PER_WEEK == 2

\* season_scraper.py lines 102-133
_calculate_match_ids_for_matchweek(matchweek, season) ==
    IF ~DHas(SEASONS, season) THEN <<>>
    ELSE [i \in 1..MATCHES_PER_WEEK |->
             DGet(SEASONS, season).i + (matchweek - 1) * MATCHES_PER_WEEK + (i - 1)]

\* datetime.now().strftime("%Y%m%d_%H%M%S") at second t of the clock
Timestamp(t) == "20250816_1500" \o PadZeros(NatToStr(t), 2)

\* processor.py lines 30-48; t is the clock when the key is made
_generate_s3_key(layer, season, matchweek, match_id, ext, t) ==
    LET base_path == "premier_league/"
                        \o (IF layer \in {"bronze", "silver", "gold"} THEN layer ELSE "bronze")
    IN  IF Truthy(season)
        THEN LET season_fmt == ReplaceCh(season.s, "/", "-")
             IN  IF Truthy(matchweek)
                 THEN IF Truthy(match_id)
                      THEN base_path \o "/" \o season_fmt \o "/matchweek_"
                              \o PadZeros(NatToStr(matchweek.i), 2)
                              \o "/match_" \o NatToStr(match_id.i) \o "." \o ext
                      ELSE base_path \o "/" \o season_fmt \o "/aggregates/mw"
                              \o PadZeros(NatToStr(matchweek.i), 2)
                              \o "_" \o Timestamp(t) \o "." \o ext
                 ELSE base_path \o "/" \o season_fmt \o "/data/" \o Timestamp(t) \o "." \o ext
        ELSE base_path \o "/misc/" \o Timestamp(t) \o "." \o ext

\* s3_client.put_object: the object under a key is replaced
PutObject(objects, key, body) ==
    {o \in objects : o.key # key} \cup {[key |-> key, body |-> body]}

\* the matchweeks that are scraped, and the match ids they have in 2025/26
ScrapeMatchweeks == {1, 2}
KnownIds ==
    UNION {{_calculate_match_ids_for_matchweek(mw, "2025/26")[i] : i \in 1..MATCHES_PER_WEEK} :
              mw \in ScrapeMatchweeks}

\* What the site shows for a match: a fixture without scores until the match
\* is played, then the match with its statistics.
PageKind(id) ==
    LET n == (id - DGet(SEASONS, "2025/26").i) % MATCHES_PER_WEEK
    IN  IF n = 0 THEN "man_utd" ELSE IF n = 1 THEN "malformed" ELSE "other"

Page(id) ==
    IF id \in played THEN BronzeContent(PageKind(id), PyInt(id))
    ELSE Document(PyInt(id), MatchInfo("Man Utd", "Arsenal", PyNone, PyNone),
                  Unset, Unset, Unset)

\* season_scraper.py lines 323-369: the page's data with the caller's
\* labels, or None when the page could not be read
scrape_match_with_matchweek(page, match_id, matchweek, season) ==
    IF ~Truthy(page) THEN PyNone
    ELSE DSet(DSet(DSet(page, "match_id", PyInt(match_id)),
                   "matchweek", PyInt(matchweek)), "season", PyStr(season))

\* scrape_to_s3.py lines 70-80: PLAYED when both scores convert to int
StatusOf(match_data) ==
    LET info == DGetOr(match_data, "match_info", PyDict(<<>>))
        hs == DGet(info, "home_score")
        as == DGet(info, "away_score")
    IN  IF /\ hs # PyNone /\ as # PyNone
           /\ ~IsRaise(int_of(hs)) /\ ~IsRaise(int_of(as))
        THEN "PLAYED" ELSE "SCHEDULED"

\* scrape_to_s3.py lines 47-49: process_matchweek before its first match
Task(season, matchweek, state) ==
    [pc |-> state, season |-> season, matchweek |-> matchweek, i |-> 1,
     match_data |-> PyNone, all_matches |-> <<>>, results |-> <<>>]

MatchIdsOf(t) == _calculate_match_ids_for_matchweek(tasks[t].matchweek, tasks[t].season)
MatchIdAt(t) == MatchIdsOf(t)[tasks[t].i]
Running == {t \in 1..Len(tasks) : tasks[t].pc \notin {"queued", "done"}}

\* scrape_to_s3.py lines 102-109 and 177-183: a free thread of the pool takes
\* the next task; a scraper that does not start ends the task with no result
StartTask(t) ==
    /\ pc = "scrape"
    /\ tasks[t].pc = "queued"
    /\ \A u \in 1..(t - 1) : tasks[u].pc # "queued"
    /\ Cardinality(Running) < max_workers
    /\ \E started \in BOOLEAN :
          tasks' = [tasks EXCEPT ![t].pc = IF started THEN "check" ELSE "done"]
    /\ UNCHANGED <<pc, max_workers, db, played, store, writers, now,
                   parseVars, teamVars, aggVars, cleanVars, pipeVars, mainVars>>

\* a loop that scrapes every match, whatever its recorded status
GetMatchStatusNoSkip(t) ==
    /\ pc = "scrape"
    /\ tasks[t].pc = "check"
    /\ tasks[t].i <= Len(MatchIdsOf(t))
    /\ tasks' = [tasks EXCEPT ![t].pc = "scrape"]
    /\ UNCHANGED <<pc, max_workers, db, played, store, writers, now,
                   parseVars, teamVars, aggVars, cleanVars, pipeVars, mainVars>>

\* scrape_to_s3.py lines 53-58 and db.py lines 31-45
GetMatchStatus(t) ==
    /\ pc = "scrape"
    /\ tasks[t].pc = "check"
    /\ tasks[t].i <= Len(MatchIdsOf(t))
    /\ \E current_status \in {db[MatchIdAt(t)]} :
          tasks' = IF current_status = PyStr("PLAYED")
                   THEN [tasks EXCEPT ![t].i = @ + 1]
                   ELSE [tasks EXCEPT ![t].pc = "scrape"]
    /\ UNCHANGED <<pc, max_workers, db, played, store, writers, now,
                   parseVars, teamVars, aggVars, cleanVars, pipeVars, mainVars>>

\* scrape_to_s3.py lines 61-65 and processor.py lines 50-74, 135-143: the
\* match is scraped and, when there is data, uploaded under its key
ScrapeMatch(t) ==
    /\ pc = "scrape"
    /\ tasks[t].pc = "scrape"
    /\ \E page \in {PyNone, Page(MatchIdAt(t))} :
       \E match_data \in {scrape_match_with_matchweek(page, MatchIdAt(t), tasks[t].matchweek,
                                                     tasks[t].season)} :
          IF ~Truthy(match_data)
          THEN /\ tasks' = [tasks EXCEPT ![t].pc = "check", ![t].i = @ + 1]
               /\ UNCHANGED <<store, writers>>
          ELSE \E s3_key \in {_generate_s3_key("bronze", DGet(match_data, "season"),
                                               DGet(match_data, "matchweek"),
                                               DGet(match_data, "match_id"), "json", now)} :
                  /\ tasks' = [tasks EXCEPT ![t].pc = "update",
                                            ![t].match_data = match_data,
                                            ![t].all_matches = Append(@, match_data)]
                  /\ store' = PutObject(store, s3_key, match_data)
                  /\ writers' = writers \cup {[key |-> s3_key, task |-> t]}
    /\ UNCHANGED <<pc, max_workers, db, played, now,
                   parseVars, teamVars, aggVars, cleanVars, pipeVars, mainVars>>

\* scrape_to_s3.py lines 67-86 and db.py lines 47-57: INSERT OR REPLACE
UpdateMatchStatus(t) ==
    /\ pc = "scrape"
    /\ tasks[t].pc = "update"
    /\ db' = [db EXCEPT ![MatchIdAt(t)] = PyStr(StatusOf(tasks[t].match_data))]
    /\ tasks' = [tasks EXCEPT ![t].pc = "check", ![t].i = @ + 1,
                              ![t].match_data = PyNone,
                              ![t].results = Append(@, MatchIdAt(t))]
    /\ UNCHANGED <<pc, max_workers, played, store, writers, now,
                   parseVars, teamVars, aggVars, cleanVars, pipeVars, mainVars>>

\* scrape_to_s3.py lines 93-99 and processor.py lines 145-162
UploadAggregate(t) ==
    /\ pc = "scrape"
    /\ tasks[t].pc = "check"
    /\ tasks[t].i > Len(MatchIdsOf(t))
    /\ tasks' = [tasks EXCEPT ![t].pc = "done"]
    /\ IF tasks[t].all_matches # <<>>
       THEN \E s3_key \in {_generate_s3_key("bronze", PyStr(tasks[t].season),
                                            PyInt(tasks[t].matchweek), PyNone, "json", now)} :
               /\ store' = PutObject(store, s3_key, PyList(tasks[t].all_matches))
               /\ writers' = writers \cup {[key |-> s3_key, task |-> t]}
       ELSE UNCHANGED <<store, writers>>
    /\ UNCHANGED <<pc, max_workers, db, played, now,
                   parseVars, teamVars, aggVars, cleanVars, pipeVars, mainVars>>

\* the matches that can have been played: the fixtures are played in the
\* order of their ids
PlayedSets == {{id \in KnownIds : id < first} : first \in KnownIds} \cup {KnownIds}

\* the next match is played: from now on its page shows the scores
PlayMatch ==
    /\ pc = "scrape"
    /\ played # KnownIds
    /\ played' \in {p \in PlayedSets : Cardinality(p) = Cardinality(played) + 1}
    /\ UNCHANGED <<pc, tasks, max_workers, db, store, writers, now,
                   parseVars, teamVars, aggVars, cleanVars, pipeVars, mainVars>>

MaxClock == 1

\* a second passes
Tick ==
    /\ pc = "scrape"
    /\ now < MaxClock
    /\ now' = now + 1
    /\ UNCHANGED <<pc, tasks, max_workers, db, played, store, writers,
                   parseVars, teamVars, aggVars, cleanVars, pipeVars, mainVars>>

---------------------------------------------------------------------------
(* scrape_to_s3.main in matchweek mode: one task per requested matchweek *)

\* args.matchweek: any list of matchweeks, a matchweek may be listed twice
RequestedMatchweeks == {<<1>>, <<1, 2>>, <<2, 1>>, <<1, 1>>}
\* args.season
RequestedSeasons == {"2025/26", "1999/00"}

InitScrape ==
    /\ pc = "scrape"
    /\ \E matchweeks \in RequestedMatchweeks, season \in RequestedSeasons :
          tasks = [n \in 1..Len(matchweeks) |-> Task(season, matchweeks[n], "queued")]
    /\ max_workers \in 1..Len(tasks)
    /\ db = [id \in KnownIds |-> PyNone]
    /\ played = {}
    /\ store = {}
    /\ writers = {}
    /\ now = 0
    /\ MainIdle
    /\ ParseIdle
    /\ TeamIdle
    /\ AggIdle
    /\ CleanIdle
    /\ PipeIdle

\* scrape_to_s3.py lines 185-193: every future has completed
AllTasksCompleted ==
    /\ pc = "scrape"
    /\ run_idx = 0
    /\ \A t \in 1..Len(tasks) : tasks[t].pc = "done"
    /\ pc' = "scraped"
    /\ UNCHANGED <<scrapeVars, parseVars, teamVars, aggVars, cleanVars, pipeVars, mainVars>>

NextScrape ==
    \/ \E t \in 1..Len(tasks) :
          \/ StartTask(t)
          \/ GetMatchStatus(t)
          \/ ScrapeMatch(t)
          \/ UpdateMatchStatus(t)
          \/ UploadAggregate(t)
    \/ PlayMatch
    \/ Tick
    \/ AllTasksCompleted

SpecScrape == InitScrape /\ [][NextScrape]_vars

\* C21: no two scrape workers ever write to the same object-store key, for
\* any list of requested matchweeks and any interleaving.
WorkersWriteDistinctKeys ==
    \A w1, w2 \in writers : w1.key = w2.key => w1.task = w2.task

\* C28: once MatchDB records a match as PLAYED, no later step of
\* process_matchweek changes its status, under any interleaving of the
\* workers.
PlayedStaysPlayed ==
    [][\A id \in KnownIds : db[id] = PyStr("PLAYED") => db'[id] = PyStr("PLAYED")]_vars

---------------------------------------------------------------------------
(* pipeline.main: run_pipeline for every (season, matchweek) pair, then *)
(* create_global_aggregates                                             *)

\* args.seasons and args.matchweeks
MainSeasons == {<<"2025/26">>, <<"1999/00", "2025/26">>}
MainMatchweeks == {<<1>>, <<1, 2>>}

\* pipeline.py lines 81-82: the pairs in the order of the nested loops
RunsOf(seasons, matchweeks) ==
    [n \in 1..(Len(seasons) * Len(matchweeks)) |->
        [season |-> seasons[((n - 1) \div Len(matchweeks)) + 1],
         matchweek |-> matchweeks[((n - 1) % Len(matchweeks)) + 1]]]

\* the key of a match in the Bronze layer
BronzeKey(id, matchweek, season) ==
    _generate_s3_key("bronze", PyStr(season), PyInt(matchweek), PyInt(id), "json", 0)

\* The state an earlier run left: the matches it found played are recorded
\* PLAYED and their documents are in the Bronze layer.
RecordedStore(ids) ==
    {[key |-> BronzeKey(id, ((id - DGet(SEASONS, "2025/26").i) \div MATCHES_PER_WEEK) + 1,
                        "2025/26"),
      body |-> scrape_match_with_matchweek(
                   BronzeContent(PageKind(id), PyInt(id)), id,
                   ((id - DGet(SEASONS, "2025/26").i) \div MATCHES_PER_WEEK) + 1, "2025/26")] :
        id \in ids}

InitMain ==
    /\ pc = "main"
    /\ \E seasons \in MainSeasons, matchweeks \in MainMatchweeks :
          runs = RunsOf(seasons, matchweeks)
    /\ run_idx = 1
    /\ skip_scrape \in BOOLEAN
    /\ trace = <<>>
    /\ gold_master = Unset
    /\ tasks = <<>>
    /\ max_workers = 1
    /\ played \in PlayedSets                  \* no match ends while main runs
    /\ \E recorded \in {{}, played} :
          /\ db = [id \in KnownIds |-> IF id \in recorded THEN PyStr("PLAYED") ELSE PyNone]
          /\ store = RecordedStore(recorded)
    /\ writers = {}
    /\ now = 0
    /\ bronze = <<>>
    /\ file_idx = 1
    /\ silver_dataset = <<>>
    /\ silver_files = <<>>
    /\ silver_aggregates = <<>>
    /\ gold_dataset = <<>>
    /\ gold_aggregates = <<>>
    /\ unread = {}
    /\ files = Unset
    /\ master = Unset
    /\ master2 = Unset
    /\ ParseIdle
    /\ TeamIdle
    /\ CleanIdle

RECURSIVE SortedKeys(_)
\* list_objects_v2 returns the keys in order
SortedKeys(keys) ==
    IF keys = {} THEN <<>>
    ELSE LET first == CHOOSE k \in keys : \A o \in keys : ~StrLess(o, k)
         IN  <<first>> \o SortedKeys(keys \ {first})

\* processor.py lines 164-177
list_files(objects, layer, season, matchweek, ext) ==
    LET prefix_path == "premier_league/" \o layer \o "/" \o ReplaceCh(season, "/", "-") \o "/"
                          \o (IF matchweek # 0
                              THEN "matchweek_" \o PadZeros(NatToStr(matchweek), 2) \o "/"
                              ELSE "")
    IN  SortedKeys({o.key : o \in {o \in objects : /\ StartsWith(o.key, prefix_path)
                                                   /\ EndsWith(o.key, "." \o ext)}})

\* processor.py lines 179-187
read_json(objects, key) == (CHOOSE o \in objects : o.key = key).body

\* etl.py lines 16 and 22-23: the Bronze files of the pair, as read
BronzeFiles(objects, run) ==
    LET keys == list_files(objects, "bronze", run.season, run.matchweek, "json")
    IN  [n \in 1..Len(keys) |-> read_json(objects, keys[n])]

\* pipeline.py lines 36-41 and etl.py lines 12-20: process_bronze_to_silver
\* is called for the pair
StartBronzeToSilver ==
    /\ pc' = "bronze_to_silver"
    /\ bronze' = BronzeFiles(store, runs[run_idx])
    /\ file_idx' = 1
    /\ silver_dataset' = <<>>
    /\ silver_files' = <<>>
    /\ gold_dataset' = <<>>
    /\ unread' = {}
    /\ UNCHANGED <<silver_aggregates, gold_aggregates>>

\* the matches that MatchDB has as PLAYED
RecordedPlayed == {id \in KnownIds : db[id] = PyStr("PLAYED")}

\* pipeline.py lines 81-83 and 12-23, 35-36: the loop calls run_pipeline for
\* the next pair
RunPipeline ==
    /\ pc = "main"
    /\ run_idx <= Len(runs)
    /\ trace' = Append(trace, [call |-> "run_pipeline", run |-> run_idx,
                                recorded |-> RecordedPlayed])
    /\ IF skip_scrape
       THEN StartBronzeToSilver
       ELSE /\ pc' = "scrape_start"
            /\ UNCHANGED pipeVars
    /\ UNCHANGED <<runs, run_idx, skip_scrape, gold_master, scrapeVars,
                   parseVars, teamVars, aggVars, cleanVars>>

\* pipeline.py line 25 and scrape_to_s3.py lines 33-40, 116-123: the scraper
\* is built and started; the call to process_matchweek follows
ScrapeStarted ==
    /\ pc = "scrape_start"
    /\ tasks' = <<Task(runs[run_idx].season, runs[run_idx].matchweek, "check")>>
    /\ pc' = "scrape"
    /\ UNCHANGED <<max_workers, db, played, store, writers, now, mainVars,
                   parseVars, teamVars, aggVars, cleanVars, pipeVars>>

\* the same lines when the browser does not start: the exception is raised
\* in the with statement, which no try of run_pipeline or main encloses
ScrapeStartRaised ==
    /\ pc = "scrape_start"
    /\ pc' = "raised"
    /\ UNCHANGED <<scrapeVars, mainVars, parseVars, teamVars, aggVars, cleanVars, pipeVars>>

\* a run_pipeline that goes on to Bronze-to-Silver whatever the scrape
\* returned
ScrapeReturnedUnchecked ==
    /\ pc = "scrape"
    /\ run_idx > 0
    /\ tasks[1].pc = "done"
    /\ StartBronzeToSilver
    /\ UNCHANGED <<mainVars, scrapeVars, parseVars, teamVars, aggVars, cleanVars>>

\* pipeline.py lines 26-34: the result of the scrape decides
ScrapeReturned ==
    /\ pc = "scrape"
    /\ run_idx > 0
    /\ tasks[1].pc = "done"
    /\ IF tasks[1].results = <<>>
       THEN /\ pc' = "main"                               \* if not results: return
            /\ run_idx' = run_idx + 1
            /\ UNCHANGED pipeVars
       ELSE /\ StartBronzeToSilver
            /\ UNCHANGED run_idx
    /\ UNCHANGED <<runs, skip_scrape, trace, gold_master, scrapeVars,
                   parseVars, teamVars, aggVars, cleanVars>>

\* pipeline.py lines 42-44 and 54-56: run_pipeline returns to the loop
RunPipelineReturned ==
    /\ pc \in {"returned", "completed"}
    /\ pc' = "main"
    /\ run_idx' = run_idx + 1
    /\ UNCHANGED <<runs, skip_scrape, trace, gold_master, scrapeVars,
                   parseVars, teamVars, aggVars, cleanVars, pipeVars>>

\* an aggregate CSV as read_csv returns it
ReadCsv(dataset) == [n \in 1..Len(dataset) |-> ReadCsvRow(dataset[n])]

\* pipeline.py lines 85-88 and etl.py lines 80-154
GlobalAggregates ==
    /\ pc = "main"
    /\ run_idx > Len(runs)
    /\ trace' = Append(trace, [call |-> "create_global_aggregates", run |-> 0,
                                recorded |-> RecordedPlayed])
    /\ master' = AggregateFrames([n \in 1..Len(silver_aggregates) |->
                                     ReadCsv(silver_aggregates[n])])
    /\ gold_master' = AggregateFrames([n \in 1..Len(gold_aggregates) |->
                                          ReadCsv(gold_aggregates[n])])
    /\ pc' = "main_returned"
    /\ UNCHANGED <<runs, run_idx, skip_scrape, files, master2, scrapeVars,
                   parseVars, teamVars, cleanVars, pipeVars>>

NextMain ==
    \/ RunPipeline
    \/ ScrapeStarted
    \/ ScrapeStartRaised
    \/ GetMatchStatus(1)
    \/ ScrapeMatch(1)
    \/ UpdateMatchStatus(1)
    \/ UploadAggregate(1)
    \/ ScrapeReturned
    \/ BronzeToSilverFile
    \/ BronzeToSilverFailed
    \/ BronzeToSilverAggregate
    \/ SilverToGoldFile
    \/ SilverToGoldAggregate
    \/ RunPipelineReturned
    \/ GlobalAggregates

SpecMain == InitMain /\ [][NextMain]_vars

---------------------------------------------------------------------------
(* Properties of pipeline.main *)

MainOver == pc \in {"main_returned", "raised"}
Calls(name) == {n \in 1..Len(trace) : trace[n].call = name}
\* the run_pipeline call that is executing, or the last one that was
CurrentCall == trace[Len(trace)]
RunIds(n) ==
    {_calculate_match_ids_for_matchweek(runs[n].matchweek, runs[n].season)[i] :
        i \in 1..Len(_calculate_match_ids_for_matchweek(runs[n].matchweek, runs[n].season))}

\* C22: a failure confined to one (season, matchweek) run, such as an unknown
\* season label or a failure while starting the scrape, aborts only that
\* run: when main is over it has called run_pipeline for every pair and then
\* create_global_aggregates, exactly once.
FailureAbortsOnlyItsRun ==
    MainOver =>
        /\ \A n \in 1..Len(runs) : \E c \in Calls("run_pipeline") : trace[c].run = n
        /\ Calls("create_global_aggregates") = {Len(trace)}

\* C27: within one run_pipeline invocation Silver-to-Gold starts only after
\* Bronze-to-Silver of the same pair went through all its files without an
\* exception, Bronze-to-Silver starts only after the scrape of the same pair
\* returned a non-empty result or with skip_scrape set, and the scrape starts
\* only at the beginning of the invocation.
StepsStrictlyOrdered ==
    [][/\ (pc' = "silver_to_gold" /\ pc # "silver_to_gold") =>
             /\ pc = "bronze_to_silver"
             /\ run_idx' = run_idx
             /\ bronze' = bronze
             /\ \A i \in 1..Len(bronze) : ~IsRaise(SilverRecord(bronze[i]))
       /\ (pc' = "bronze_to_silver" /\ pc # "bronze_to_silver") =>
             /\ run_idx' = run_idx
             /\ \/ skip_scrape /\ pc = "main"
                \/ /\ ~skip_scrape
                   /\ pc = "scrape"
                   /\ tasks[1].pc = "done"
                   /\ tasks[1].season = runs[run_idx].season
                   /\ tasks[1].matchweek = runs[run_idx].matchweek
                   /\ tasks[1].results # <<>>
       /\ (pc' \in {"scrape_start", "scrape"} /\ pc \notin {"scrape_start", "scrape"}) =>
             /\ pc = "main"
             /\ ~skip_scrape]_vars

\* a run that scraped, cleaned and extracted, in this order
ScrapedThenSilverThenGold ==
    /\ pc = "completed"
    /\ ~skip_scrape
    /\ tasks[1].results # <<>>
    /\ tasks[1].matchweek = runs[run_idx].matchweek
    /\ silver_dataset # <<>>
    /\ gold_aggregates # <<>>

===========================================================================
